---- MODULE Spec2Model ----
(***************************************************************************)
(* Authority deduplication (Gelow/concat).                                 *)
(*                                                                         *)
(* Spec     : the deduplication run of auth_deduplication.py, from the     *)
(*            loaded table df_norm through predict, clustering, the write  *)
(*            to authsource_clusters and generate_links.                   *)
(* SpecKey  : the blocking key UDF (blocking_key_udf) applied to the two   *)
(*            sides of the entryname-to-entryname blocking rule.           *)
(* SpecHomoglyph : fix_homoglyph_errors of modules/homoglyph.py on a text.  *)
(* SpecLang      : process_language on three name fields and a lang.       *)
(* SpecClean     : clean_text on a raw subfield text.                      *)
(* SpecDates     : normalize_dates on the text of a $f subfield.           *)
(* SpecNormalize : normalize_authority_data on one authority record, up to *)
(*                 the write to authsource_normalized.                     *)
(* SpecInitials  : convert_to_initials on a forename.                      *)
(* SpecWrite     : the batched insert of the cluster assignments into      *)
(*                 authsource_clusters, with failures and a second run.    *)
(* SpecBatch     : normalize_authority_data over a batch of records, with  *)
(*                 the failures of parsing, normalizing and storing.       *)
(* SpecHarvest   : the request loop of harvest_ilsdi.                      *)
(***************************************************************************)
EXTENDS Integers, Sequences, FiniteSets, TLC

VARIABLES
    pc,                  \* position of the run in the script
    df_norm,             \* rows of authsource_normalized; the row id is the index
    authsource,          \* auth_id -> [server_id, used_count]
    df_pred,             \* retained pairs -> match probability (permille)
    df_clusters,         \* row id -> cluster_id, once clustered
    authsource_clusters, \* bag of (auth_id, cluster_id) rows in the table
    srv_map,             \* server_id -> staffdomain, as read by generate_links
    link_files,          \* server_id -> set of merge lines of links_server_<id>.txt
    errors,              \* servers for which "No domain" was logged
    l, r,                \* the two records a blocking rule compares
    key_l, key_r,        \* their blocking keys
    candidate,           \* the rule's verdict on the pair
    arg,                 \* argument of the text function under evaluation
    ret,                 \* its return value
    warnings,            \* number of logger.warning calls it made
    record,              \* the authsource row being normalized (auth_id, server_id)
    fields,              \* parse_marcxml's result for its xmlrecord
    normalized_data,     \* rows collected for that record
    authsource_normalized, \* rows of the table authsource_normalized
    calls,               \* functions applied to the field occurrences, in order
    batch_index,         \* insert_many: index i of the first row of the next batch
    runs,                \* completed write-outs of the cluster assignments
    data,                \* normalize_authority_data: the rows read from authsource
    position,            \* index in data of the record the loop is at
    logged,              \* auth_ids for which logger.error was called
    previous_rows,       \* the table as insert_authsource_normalized found it
    batch_size,          \* harvest_ilsdi: ids per request
    present,             \* ids of the records the server holds
    record_id,           \* first id of the next request
    consecutive_not_found, \* ids in the all-missing requests since the last record
    processed_records,   \* valid records handed to process_records_ilsdi
    requested            \* the id batches requested so far

vars == <<pc, df_norm, authsource, df_pred, df_clusters, authsource_clusters,
          srv_map, link_files, errors, l, r, key_l, key_r, candidate,
          arg, ret, warnings, record, fields, normalized_data,
          authsource_normalized, calls, batch_index, runs, data, position,
          logged, previous_rows, batch_size, present, record_id, consecutive_not_found,
          processed_records, requested>>

dedupVars == <<df_norm, authsource, df_pred, df_clusters, authsource_clusters,
               srv_map, link_files, errors>>
keyVars == <<l, r, key_l, key_r, candidate>>
textVars == <<arg, ret, warnings>>
normVars == <<record, fields, normalized_data, authsource_normalized, calls>>
writeVars == <<batch_index, runs>>
batchVars == <<data, position, logged, previous_rows>>
harvestVars == <<batch_size, present, record_id, consecutive_not_found,
                 processed_records, requested>>
stageVars == <<writeVars, batchVars, harvestVars>>

(***************************************************************************)
(* Bounds and domains of the input data.                                   *)
(***************************************************************************)
MaxRows == 3
AuthIds == 1..MaxRows
Servers == {1, 2}
Fields == {200, 400, 700}
Langs == {"ukr", ""}
UsedCounts == {1, 2}
NoDomain == ""
Domains == {NoDomain, "koha.example.org"}
ThresholdPermille == 900
Probs == {ThresholdPermille - 1, ThresholdPermille}

RowIds == 1..MaxRows
Pairs == {p \in RowIds \X RowIds : p[1] < p[2]}
NotYet == <<>>

Min(S) == CHOOSE x \in S : \A y \in S : x <= y
Max(S) == CHOOSE x \in S : \A y \in S : x >= y

(***************************************************************************)
(* Columns of a row of the loaded frame.  server_id is a column of         *)
(* authsource_normalized copied from authsource at normalization time,     *)
(* used_count comes from the LEFT JOIN, source_authid is the entity's id   *)
(* on its hosting server (unique per server, one per auth_id).             *)
(***************************************************************************)
auth_id(i) == df_norm[i].auth_id
field(i) == df_norm[i].field
lang(i) == df_norm[i].lang
server_id(i) == authsource[auth_id(i)].server_id
used_count(i) == authsource[auth_id(i)].used_count
SourceIdOf(a) == 1000 + a
source_authid(i) == SourceIdOf(auth_id(i))
full_name(i) == i

FieldRank(f) == IF f = 200 THEN 1 ELSE IF f = 400 THEN 2 ELSE 3

\* Rows as a normalization pass leaves them: entities in auth_id order, the
\* rows of one entity in the order 200, 400, 700.
RowsInInsertOrder(rows) ==
    \A i \in 1..(Len(rows) - 1) :
        \/ rows[i].auth_id < rows[i + 1].auth_id
        \/ /\ rows[i].auth_id = rows[i + 1].auth_id
           /\ FieldRank(rows[i].field) <= FieldRank(rows[i + 1].field)

DefaultEntity == [server_id |-> 1, used_count |-> 1]

\* Entities are numbered in the order of their first row, the first entity
\* living on server 1 (auth_id and server_id are labels).
EntitiesInOrder(rows) ==
    /\ rows[1].auth_id = 1
    /\ \A i \in 1..(Len(rows) - 1) : rows[i + 1].auth_id <= rows[i].auth_id + 1

\* Server registries read by generate_links: every server may lack its
\* staffdomain.
Registries == [Servers -> Domains]

(***************************************************************************)
(* predict(threshold_match_probability=0.9): the scored candidate pairs    *)
(* at or above the threshold.                                              *)
(***************************************************************************)
predict(prob) ==
    [p \in {q \in DOMAIN prob : prob[q] >= ThresholdPermille} |-> prob[p]]

(***************************************************************************)
(* cluster_pairwise_predictions_at_threshold: connected components over    *)
(* all rows of the input frame, edges being the pairs of df_pred at or     *)
(* above the threshold; a component is named by its lowest row id.         *)
(***************************************************************************)
Edges(pred) == {p \in DOMAIN pred : pred[p] >= ThresholdPermille}

Neighbours(E, S) ==
    S \cup {j \in RowIds : \E i \in S : <<i, j>> \in E \/ <<j, i>> \in E}

RECURSIVE Component(_, _)
Component(E, S) ==
    IF Neighbours(E, S) = S THEN S ELSE Component(E, Neighbours(E, S))

\* Variant: a row is grouped with its direct partners only.
cluster_direct_partners_only(pred) ==
    [i \in RowIds |-> Min(Neighbours(Edges(pred), {i}))]

cluster_pairwise_predictions_at_threshold(pred) ==
    [i \in RowIds |-> Min(Component(Edges(pred), {i}))]

(***************************************************************************)
(* cluster_results and insert_many: one (auth_id, cluster_id) row per row  *)
(* of df_clusters, appended to the table.                                  *)
(***************************************************************************)
ClusterRow(i, clusters) == [auth_id |-> auth_id(i), cluster_id |-> clusters[i]]

\* Variant: rows whose cluster_id no other row carries are left out.
cluster_results_shared_only(clusters) ==
    [i \in {k \in DOMAIN clusters :
                \E j \in DOMAIN clusters : j # k /\ clusters[j] = clusters[k]}
        |-> ClusterRow(i, clusters)]

cluster_results(clusters) == [i \in DOMAIN clusters |-> ClusterRow(i, clusters)]

BagOfRows(rows) ==
    [x \in {rows[i] : i \in DOMAIN rows} |->
        Cardinality({i \in DOMAIN rows : rows[i] = x})]

BagCount(bag, x) == IF x \in DOMAIN bag THEN bag[x] ELSE 0

insert_many(table, rows) ==
    LET new == BagOfRows(rows)
    IN  [x \in DOMAIN table \cup DOMAIN new |-> BagCount(table, x) + BagCount(new, x)]

(***************************************************************************)
(* generate_links.  order is the position of each row in df_clusters,      *)
(* which decides keep='first' among rows equal on (source_authid, field).  *)
(***************************************************************************)
\* Variant: the rows of the fields 200 and 700 are read.
LinkFieldsMainLinked == {200, 700}

LinkFields == {200, 400}

\* Variant: the language is left out of the grouping.
GroupRowsAnyLang(srv, k) ==
    {i \in RowIds : /\ server_id(i) = srv /\ field(i) \in LinkFields
                    /\ df_clusters[i] = k[1]}

ServerGroup(srv) == {i \in RowIds : server_id(i) = srv /\ field(i) \in LinkFields}

GroupKeys(srv) == {<<df_clusters[i], lang(i)>> : i \in ServerGroup(srv)}

GroupRows(srv, k) ==
    {i \in ServerGroup(srv) : df_clusters[i] = k[1] /\ lang(i) = k[2]}

Before(order, i, j) ==
    \/ field(i) < field(j)
    \/ field(i) = field(j) /\ order[i] <= order[j]

\* Variant: no de-duplication on source_authid.
UniqueNoDedup(order, cluster) == cluster

Unique(order, cluster) ==
    {i \in cluster :
        \A j \in cluster : source_authid(j) = source_authid(i) => Before(order, i, j)}

\* Variant: ties on the usage count go to the highest row id.
MainRecordHighestId(unique) ==
    LET max_uc == Max({used_count(i) : i \in unique})
        tied == {i \in unique : used_count(i) = max_uc}
    IN  Max(tied)

MainRecord(unique) ==
    LET max_uc == Max({used_count(i) : i \in unique})
        tied == {i \in unique : used_count(i) = max_uc}
    IN  Min(tied)

MergeLine(dom, cid, main, rec) ==
    [dom |-> dom, canonical |-> source_authid(main), duplicate |-> source_authid(rec),
     cluster_id |-> cid, main_name |-> full_name(main), name |-> full_name(rec)]

GroupLines(order, dom, srv, k) ==
    LET cluster == GroupRows(srv, k)
        unique == Unique(order, cluster)
    IN  IF Cardinality(cluster) < 2 \/ Cardinality(unique) < 2
        THEN {}
        ELSE LET main == MainRecord(unique)
                 others == {i \in unique : source_authid(i) # source_authid(main)}
             IN  {MergeLine(dom, k[1], main, rec) : rec \in others}

merge_lines(order, dom, srv) ==
    UNION {GroupLines(order, dom, srv, k) : k \in GroupKeys(srv)}

\* servers visited by the loop that get past the "empty" test
VisitedServers == {srv \in Servers : ServerGroup(srv) # {}}

NoDomainServers(map) == {srv \in VisitedServers : map[srv] = NoDomain}

\* Variant: the loop over the servers ends at the first server, in the
\* sorted order of groupby, that has no domain.
WrittenServersUntilMissing(order, map) ==
    {srv \in VisitedServers :
        /\ map[srv] # NoDomain /\ merge_lines(order, map[srv], srv) # {}
        /\ \A before \in NoDomainServers(map) : srv < before}

WrittenServers(order, map) ==
    {srv \in VisitedServers :
        map[srv] # NoDomain /\ merge_lines(order, map[srv], srv) # {}}

generate_links(order, map) ==
    [srv \in WrittenServers(order, map) |-> merge_lines(order, map[srv], srv)]

(***************************************************************************)
(* The run.                                                                *)
(***************************************************************************)
InitDedup ==
    /\ pc = "loaded"
    /\ df_norm \in [RowIds -> [auth_id : AuthIds, field : Fields, lang : Langs]]
    /\ RowsInInsertOrder(df_norm)
    /\ EntitiesInOrder(df_norm)
    /\ authsource \in [AuthIds -> [server_id : Servers, used_count : UsedCounts]]
    /\ authsource[1].server_id = 1
    /\ \A a \in AuthIds :
          (\A i \in RowIds : df_norm[i].auth_id # a) => authsource[a] = DefaultEntity
    /\ df_pred = NotYet
    /\ df_clusters = NotYet
    /\ authsource_clusters = <<>>
    /\ srv_map = NotYet
    /\ link_files = NotYet
    /\ errors = {}

IdleKey ==
    /\ l = NotYet
    /\ r = NotYet
    /\ key_l = NotYet
    /\ key_r = NotYet
    /\ candidate = FALSE

IdleText ==
    /\ arg = NotYet
    /\ ret = NotYet
    /\ warnings = 0

IdleNorm ==
    /\ record = NotYet
    /\ fields = NotYet
    /\ normalized_data = <<>>
    /\ authsource_normalized = <<>>
    /\ calls = <<>>

IdleWrite ==
    /\ batch_index = 0
    /\ runs = 0

IdleBatch ==
    /\ data = <<>>
    /\ position = 0
    /\ logged = <<>>
    /\ previous_rows = NotYet

IdleHarvest ==
    /\ batch_size = 0
    /\ present = {}
    /\ record_id = 0
    /\ consecutive_not_found = 0
    /\ processed_records = 0
    /\ requested = <<>>

IdleStages == IdleWrite /\ IdleBatch /\ IdleHarvest

Predict ==
    /\ pc = "loaded"
    /\ \E cand \in SUBSET Pairs :
          \E prob \in [cand -> Probs] :
              df_pred' = predict(prob)
    /\ pc' = "predicted"
    /\ UNCHANGED <<df_norm, authsource, df_clusters, authsource_clusters,
                   srv_map, link_files, errors>>
    /\ UNCHANGED keyVars
    /\ UNCHANGED <<textVars, normVars, stageVars>>

Cluster ==
    /\ pc = "predicted"
    /\ df_clusters' = cluster_pairwise_predictions_at_threshold(df_pred)
    /\ pc' = "clustered"
    /\ UNCHANGED <<df_norm, authsource, df_pred, authsource_clusters,
                   srv_map, link_files, errors>>
    /\ UNCHANGED keyVars
    /\ UNCHANGED <<textVars, normVars, stageVars>>

InsertClusters ==
    /\ pc = "clustered"
    /\ authsource_clusters' = insert_many(authsource_clusters, cluster_results(df_clusters))
    /\ pc' = "saved"
    /\ UNCHANGED <<df_norm, authsource, df_pred, df_clusters,
                   srv_map, link_files, errors>>
    /\ UNCHANGED keyVars
    /\ UNCHANGED <<textVars, normVars, stageVars>>

GenerateLinks ==
    /\ pc = "saved"
    /\ \E map \in Registries :
          \E order \in Permutations(RowIds) :
              /\ srv_map' = map
              /\ link_files' = generate_links(order, map)
              /\ errors' = NoDomainServers(map)
    /\ pc' = "done"
    /\ UNCHANGED <<df_norm, authsource, df_pred, df_clusters, authsource_clusters>>
    /\ UNCHANGED keyVars
    /\ UNCHANGED <<textVars, normVars, stageVars>>

Init == InitDedup /\ IdleKey /\ IdleText /\ IdleNorm /\ IdleStages

Next == Predict \/ Cluster \/ InsertClusters \/ GenerateLinks

Spec == Init /\ [][Next]_vars

(***************************************************************************)
(* Blocking keys.  A string is a sequence of code points.                  *)
(***************************************************************************)
MaxLen == 2

CyrillicLetters == {1074, 1075, 1097}      \* в г щ
LatinLetters == {83, 115, 90}              \* S s Z
Alphabet == CyrillicLetters \cup LatinLetters

ShevchenkoCyr == <<1064, 1077, 1074, 1095, 1077, 1085, 1082, 1086>>
ShevchenkoLat == <<83, 104, 101, 118, 99, 104, 101, 110, 107, 111>>

Names == UNION {[1..n -> Alphabet] : n \in 0..MaxLen} \cup {ShevchenkoCyr, ShevchenkoLat}
KeyLangs == {"ukr", "UKR", "rus", "bul", "eng", ""}

isascii(c) == c < 128
isalpha(c) == c \in 65..90 \/ c \in 97..122 \/ c \in 1024..1279

\* str.upper on the letters that occur
upper(c) == IF c \in 97..122 \/ c \in 1072..1103 THEN c - 32 ELSE c

\* str.lower on the language codes that occur
lower(lg) == IF lg = "UKR" THEN "ukr" ELSE lg

(***************************************************************************)
(* jellyfish.soundex: the first letter upper-cased, then the digit classes *)
(* of the following letters, adjacent equal classes collapsed (H and W do  *)
(* not separate them), cut at four symbols and padded with '0'.            *)
(***************************************************************************)
Replacement(c) ==
    IF c \in {66, 70, 80, 86} THEN 1                        \* BFPV
    ELSE IF c \in {67, 71, 74, 75, 81, 83, 88, 90} THEN 2   \* CGJKQSXZ
    ELSE IF c \in {68, 84} THEN 3                           \* DT
    ELSE IF c = 76 THEN 4                                   \* L
    ELSE IF c \in {77, 78} THEN 5                           \* MN
    ELSE IF c = 82 THEN 6                                   \* R
    ELSE 0

Digit(n) == 48 + n

RECURSIVE SoundexScan(_, _, _, _)
SoundexScan(u, k, last, result) ==
    IF k > Len(u) \/ Len(result) = 4 THEN result
    ELSE LET sub == Replacement(u[k])
         IN  IF sub # 0
             THEN SoundexScan(u, k + 1, sub,
                              IF sub # last THEN Append(result, Digit(sub)) ELSE result)
             ELSE SoundexScan(u, k + 1, IF u[k] \in {72, 87} THEN last ELSE 0, result)

RECURSIVE Pad(_)
Pad(result) == IF Len(result) >= 4 THEN result ELSE Pad(Append(result, Digit(0)))

\* Variant: the first symbol is the digit class of the first letter.
soundex_first_coded(s) ==
    IF s = <<>> THEN <<>>
    ELSE LET u == [i \in 1..Len(s) |-> upper(s[i])]
         IN  Pad(SoundexScan(u, 2, Replacement(u[1]), <<Digit(Replacement(u[1]))>>))

soundex(s) ==
    IF s = <<>> THEN <<>>
    ELSE LET u == [i \in 1..Len(s) |-> upper(s[i])]
         IN  Pad(SoundexScan(u, 2, Replacement(u[1]), <<u[1]>>))

(***************************************************************************)
(* transliterate.translit(value, lc, reversed=True): Cyrillic letters      *)
(* to their Latin spelling in the language pack lc, other characters kept. *)
(***************************************************************************)
TranslitChar(c, lc) ==
    CASE c = 1064 -> <<83, 104>>                            \* Ш -> Sh
      [] c = 1096 -> <<115, 104>>                           \* ш -> sh
      [] c = 1077 -> <<101>>                                \* е -> e
      [] c = 1074 -> <<118>>                                \* в -> v
      [] c = 1095 -> <<99, 104>>                            \* ч -> ch
      [] c = 1085 -> <<110>>                                \* н -> n
      [] c = 1082 -> <<107>>                                \* к -> k
      [] c = 1086 -> <<111>>                                \* о -> o
      [] c = 1075 -> IF lc = "uk" THEN <<104>> ELSE <<103>> \* г -> h | g
      [] c = 1097 -> IF lc = "uk" THEN <<115, 104, 99, 104>>      \* щ -> shch
                     ELSE IF lc = "bg" THEN <<115, 104, 116>>     \* щ -> sht
                     ELSE <<115, 99, 104>>                        \* щ -> sch
      [] OTHER -> <<c>>

RECURSIVE translit(_, _)
translit(value, lc) ==
    IF value = <<>> THEN <<>>
    ELSE TranslitChar(Head(value), lc) \o translit(Tail(value), lc)

\* Variant: no entry for Bulgarian.
lang_map_without_bul(lg) ==
    IF lg = "rus" THEN "ru" ELSE IF lg = "ukr" THEN "uk" ELSE "ru"

lang_map(lg) ==
    IF lg = "rus" THEN "ru"
    ELSE IF lg = "ukr" THEN "uk"
    ELSE IF lg = "bul" THEN "bg"
    ELSE "ru"

\* Variant: the phonetic code is returned as it is.
custom_cyrillic_function_plain_code(entryname, lg) ==
    IF entryname = <<>> \/ lg = "" THEN <<>>
    ELSE soundex(translit(entryname, lang_map(lower(lg))))

custom_cyrillic_function(entryname, lg) ==
    IF entryname = <<>> \/ lg = "" THEN <<>>
    ELSE LET lc == lang_map(lower(lg))
             transliterated == translit(entryname, lc)
             code == soundex(transliterated)
         IN  IF code # <<>> THEN <<entryname[1]>> \o Tail(code) ELSE code

blocking_key_udf(entryname, lg) ==
    IF entryname = <<>> THEN <<>>
    ELSE LET c == entryname[1]
         IN  IF isascii(c) /\ isalpha(c) THEN soundex(entryname)
             ELSE custom_cyrillic_function(entryname, lg)

\* the first blocking rule: blocking_key_udf(l.entryname, l.lang) =
\* blocking_key_udf(r.entryname, r.lang)
blocking_rule_entryname(kl, kr) == kl = kr

\* The right-hand record of a pair: any name, or the romanized spelling of
\* the left-hand heading, catalogued without a language.
Romanized(rec) == translit(rec.entryname, lang_map(lower(rec.lang)))

IdleDedup ==
    /\ df_norm = NotYet
    /\ authsource = NotYet
    /\ df_pred = NotYet
    /\ df_clusters = NotYet
    /\ authsource_clusters = <<>>
    /\ srv_map = NotYet
    /\ link_files = NotYet
    /\ errors = {}

InitKey ==
    /\ pc = "pair"
    /\ l \in [entryname : Names, lang : KeyLangs]
    /\ r \in [entryname : Names \cup {Romanized(l)}, lang : {""}]
    /\ key_l = NotYet
    /\ key_r = NotYet
    /\ candidate = FALSE
    /\ IdleDedup
    /\ IdleText
    /\ IdleNorm
    /\ IdleStages

EvalBlockingRule ==
    /\ pc = "pair"
    /\ key_l' = blocking_key_udf(l.entryname, l.lang)
    /\ key_r' = blocking_key_udf(r.entryname, r.lang)
    /\ candidate' = blocking_rule_entryname(key_l', key_r')
    /\ pc' = "blocked"
    /\ UNCHANGED <<l, r>>
    /\ UNCHANGED dedupVars
    /\ UNCHANGED <<textVars, normVars, stageVars>>

SpecKey == InitKey /\ [][EvalBlockingRule]_vars

(***************************************************************************)
(* Vocabulary of the properties of the run.                                *)
(***************************************************************************)
Clustered == pc \in {"clustered", "saved", "done"}
Saved == pc \in {"saved", "done"}
Done == pc = "done"

RetainedPair(i, j) ==
    LET p == IF i < j THEN <<i, j>> ELSE <<j, i>>
    IN  p \in DOMAIN df_pred /\ df_pred[p] >= ThresholdPermille

HasRetainedPair(i) == \E j \in RowIds : j # i /\ RetainedPair(i, j)

Paths == UNION {[1..n -> RowIds] : n \in 1..MaxRows}

ChainOfRetainedPairs(i, j) ==
    \E path \in Paths :
        /\ path[1] = i
        /\ path[Len(path)] = j
        /\ \A k \in 1..(Len(path) - 1) : RetainedPair(path[k], path[k + 1])

RECURSIVE BagSize(_)
BagSize(bag) ==
    IF DOMAIN bag = {} THEN 0
    ELSE LET x == CHOOSE y \in DOMAIN bag : TRUE
         IN  bag[x] + BagSize([y \in DOMAIN bag \ {x} |-> bag[y]])

FileLines(srv) == IF srv \in DOMAIN link_files THEN link_files[srv] ELSE {}
AllLines == UNION {FileLines(srv) : srv \in Servers}
LineRows(ln) == {ln.main_name, ln.name}

\* rows of an entity inside a cluster
EntityRowsInCluster(a, cid) ==
    {i \in RowIds : auth_id(i) = a /\ df_clusters[i] = cid}

\* the rows of one (server, cluster, language) slice, limited to some fields
Slice(srv, cid, lg, F) ==
    {i \in RowIds : /\ server_id(i) = srv /\ df_clusters[i] = cid
                    /\ lang(i) = lg /\ field(i) \in F}
SliceEntities(srv, cid, lg, F) == {auth_id(i) : i \in Slice(srv, cid, lg, F)}
SliceLines(srv, cid, lg) ==
    {ln \in FileLines(srv) : ln.cluster_id = cid /\ lang(ln.main_name) = lg}

(***************************************************************************)
(* C1: no entity id is assigned to more than one cluster id in the rows    *)
(* written to authsource_clusters.  The run writes one row per NameRecord, *)
(* so an entity whose heading and variant fall in different components     *)
(* gets two cluster ids.                                                   *)
(***************************************************************************)
C1_EntityInOneCluster ==
    Saved => \A x, y \in DOMAIN authsource_clusters :
                 x.auth_id = y.auth_id => x.cluster_id = y.cluster_id

C3_TransitiveClosure ==
    Clustered =>
        /\ \A a, b, c \in RowIds :
              RetainedPair(a, b) /\ RetainedPair(b, c) =>
                  df_clusters[a] = df_clusters[b] /\ df_clusters[b] = df_clusters[c]
        /\ \A i, j \in RowIds :
              df_clusters[i] = df_clusters[j] <=> ChainOfRetainedPairs(i, j)

C3_Witness ==
    /\ pc = "clustered"
    /\ \E a, b, c \in RowIds :
          /\ a # c
          /\ RetainedPair(a, b) /\ RetainedPair(b, c) /\ ~RetainedPair(a, c)
          /\ df_clusters[a] = df_clusters[c]

(***************************************************************************)
(* C4 (as claimed): link generation uses only rows of the fields 200 and   *)
(* 700, and an entity that is in the cluster only through rows of field    *)
(* 400 appears in no merge line.                                           *)
(***************************************************************************)
C4_OnlyMainOrLinked ==
    Done => \A ln \in AllLines : \A x \in LineRows(ln) :
                /\ field(x) \in {200, 700}
                /\ \E i \in EntityRowsInCluster(auth_id(x), ln.cluster_id) :
                      field(i) \in {200, 700}

(***************************************************************************)
(* C4 (amended): link generation uses only rows of the fields 200 and 400  *)
(* (MAIN and VARIANT); an entity that is in the cluster only through rows  *)
(* of field 700 (LINKED) appears in no merge line, neither as canonical    *)
(* nor as duplicate.                                                       *)
(***************************************************************************)
C4_OnlyMainOrVariant ==
    Done =>
        /\ \A ln \in AllLines : \A x \in LineRows(ln) : field(x) \in {200, 400}
        /\ \A a \in AuthIds : \A cid \in RowIds :
              (\A i \in EntityRowsInCluster(a, cid) : field(i) = 700) =>
                  \A ln \in AllLines :
                      ln.cluster_id = cid =>
                          /\ ln.canonical # SourceIdOf(a)
                          /\ ln.duplicate # SourceIdOf(a)

C4_Witness ==
    /\ Done
    /\ \E ln \in AllLines : \E i \in RowIds :
          /\ field(ln.name) = 400
          /\ \A k \in EntityRowsInCluster(auth_id(ln.name), ln.cluster_id) : field(k) = 400
          /\ field(i) = 700
          /\ df_clusters[i] = ln.cluster_id
          /\ lang(i) = lang(ln.main_name)
          /\ server_id(i) = server_id(ln.main_name)
          /\ \A k \in EntityRowsInCluster(auth_id(i), ln.cluster_id) : field(k) = 700

(***************************************************************************)
(* C5: in every (server, cluster, language) group with at least two        *)
(* distinct source ids the canonical member has the maximum usage count of *)
(* the group and, among the de-duplicated members with that count, the     *)
(* lowest row id.  The members after de-duplication are the rows the       *)
(* group's lines name.                                                     *)
(***************************************************************************)
LinesMembers(lines) == UNION {LineRows(ln) : ln \in lines}

C5_CanonicalChoice ==
    Done =>
        \A srv \in Servers : \A cid \in RowIds : \A lg \in Langs :
            LET members == Slice(srv, cid, lg, {200, 400})
                lines == SliceLines(srv, cid, lg)
                kept == LinesMembers(lines)
            IN  (srv_map[srv] # NoDomain /\ Cardinality(SliceEntities(srv, cid, lg, {200, 400})) >= 2)
                => /\ lines # {}
                   /\ \A ln \in lines :
                         /\ ln.main_name \in members
                         /\ \A i \in members : used_count(i) <= used_count(ln.main_name)
                         /\ \A i \in kept :
                               used_count(i) = used_count(ln.main_name) => ln.main_name <= i

C5_Witness ==
    /\ Done
    /\ \E ln \in AllLines :
          /\ used_count(ln.name) = used_count(ln.main_name)
          /\ auth_id(ln.main_name) < auth_id(ln.name)
    /\ \E ln \in AllLines :
          /\ used_count(ln.name) < used_count(ln.main_name)
          /\ auth_id(ln.main_name) > auth_id(ln.name)

(***************************************************************************)
(* C6: a (server, cluster, language) group with n >= 2 distinct source ids *)
(* (rows of the fields generate_links reads, one row kept per source id,   *)
(* the 200 row preferred) yields exactly n-1 merge lines: one canonical,   *)
(* one line per other source id, none from the canonical to itself; a      *)
(* group with fewer than 2 source ids yields none.                         *)
(***************************************************************************)
PreferredRow(x, members) ==
    \A i \in members : auth_id(i) = auth_id(x) => field(x) <= field(i)

C6_LinksPerGroup ==
    Done =>
        /\ \A srv \in Servers : \A ln \in FileLines(srv) :
              /\ server_id(ln.main_name) = srv /\ server_id(ln.name) = srv
              /\ lang(ln.name) = lang(ln.main_name)
              /\ ln.canonical = source_authid(ln.main_name)
              /\ ln.duplicate = source_authid(ln.name)
              /\ ln.dom = srv_map[srv]
        /\ \A srv \in DOMAIN link_files : link_files[srv] # {}
        /\ \A srv \in Servers : \A cid \in RowIds : \A lg \in Langs :
              LET members == Slice(srv, cid, lg, {200, 400})
                  sources == {source_authid(i) : i \in members}
                  lines == SliceLines(srv, cid, lg)
              IN  IF srv_map[srv] # NoDomain /\ Cardinality(sources) >= 2
                  THEN /\ Cardinality(lines) = Cardinality(sources) - 1
                       /\ \E m \in sources :
                             /\ \A ln \in lines : ln.canonical = m /\ ln.duplicate # m
                             /\ {ln.duplicate : ln \in lines} = sources \ {m}
                       /\ \A ln \in lines : \A x \in LineRows(ln) :
                             x \in members /\ PreferredRow(x, members)
                  ELSE lines = {}

C6_Witness ==
    /\ Done
    /\ \E srv \in DOMAIN link_files : \E ln1, ln2 \in link_files[srv] :
          /\ ln1 # ln2
          /\ ln1.cluster_id = ln2.cluster_id
          /\ lang(ln1.main_name) = lang(ln2.main_name)

C6_WitnessDedup ==
    /\ Done
    /\ \E ln \in AllLines : \E i \in RowIds :
          /\ i \notin LineRows(ln)
          /\ auth_id(i) = auth_id(ln.name)
          /\ i \in Slice(server_id(ln.name), ln.cluster_id, lang(ln.name), {200, 400})

(***************************************************************************)
(* C7: a 2-member cluster of two distinct entities on one server with a    *)
(* configured endpoint.                                                    *)
(***************************************************************************)
TwoMemberCluster(i, j) ==
    /\ i # j
    /\ df_clusters[i] = df_clusters[j]
    /\ \A k \in RowIds \ {i, j} : df_clusters[k] # df_clusters[i]
    /\ auth_id(i) # auth_id(j)
    /\ server_id(i) = server_id(j)
    /\ srv_map[server_id(i)] # NoDomain

ClusterLines(cid) == {ln \in AllLines : ln.cluster_id = cid}

HigherUsageIsCanonical(i, j, ln) ==
    /\ used_count(i) > used_count(j) => ln.canonical = source_authid(i)
    /\ used_count(j) > used_count(i) => ln.canonical = source_authid(j)

(***************************************************************************)
(* C7 (as claimed): with one member lang=ukr and the other lang empty      *)
(* (both main headings) the cluster yields exactly one merge line, naming  *)
(* the entity with the higher usage count as canonical.                    *)
(***************************************************************************)
C7_OneLinkAcrossLangs ==
    Done =>
        \A i, j \in RowIds :
            (/\ TwoMemberCluster(i, j)
             /\ field(i) = 200 /\ field(j) = 200
             /\ lang(i) = "ukr" /\ lang(j) = "")
            => /\ Cardinality(ClusterLines(df_clusters[i])) = 1
               /\ \A ln \in ClusterLines(df_clusters[i]) : HigherUsageIsCanonical(i, j, ln)

(***************************************************************************)
(* C7 (amended): such a cluster (rows of the fields 200/400) yields no     *)
(* merge line when one member has lang=ukr and the other an empty lang,    *)
(* because links are built per (cluster, language) group; it yields        *)
(* exactly one merge line, naming the entity with the higher usage count   *)
(* as canonical, when both members carry the same lang.                    *)
(***************************************************************************)
C7_OneLinkWithinLang ==
    Done =>
        \A i, j \in RowIds :
            (TwoMemberCluster(i, j) /\ field(i) \in {200, 400} /\ field(j) \in {200, 400})
            => IF lang(i) # lang(j)
               THEN ClusterLines(df_clusters[i]) = {}
               ELSE /\ Cardinality(ClusterLines(df_clusters[i])) = 1
                    /\ \A ln \in ClusterLines(df_clusters[i]) :
                          /\ {ln.canonical, ln.duplicate} = {source_authid(i), source_authid(j)}
                          /\ HigherUsageIsCanonical(i, j, ln)

C7_Witness ==
    /\ Done
    /\ \E i, j \in RowIds :
          /\ TwoMemberCluster(i, j)
          /\ field(i) = 200 /\ field(j) = 200
          /\ lang(i) = "ukr" /\ lang(j) = ""
          /\ used_count(i) > used_count(j)
          /\ ClusterLines(df_clusters[i]) = {}

(***************************************************************************)
(* Vocabulary of the properties of the blocking keys.                      *)
(***************************************************************************)
Blocked == pc = "blocked"
AsciiBranch(rec) ==
    rec.entryname # <<>> /\ isascii(rec.entryname[1]) /\ isalpha(rec.entryname[1])
CyrillicBranch(rec) == rec.entryname # <<>> /\ ~AsciiBranch(rec)
ShevchenkoPair ==
    /\ l = [entryname |-> ShevchenkoCyr, lang |-> "ukr"]
    /\ r = [entryname |-> ShevchenkoLat, lang |-> ""]

(***************************************************************************)
(* C8 (as claimed): the key of a Cyrillic heading equals the key of its    *)
(* romanized form, so the two are a candidate pair under the entryname     *)
(* rule; so for Shevchenko in Cyrillic (ukr) and in Latin (no lang).       *)
(***************************************************************************)
C8_SharedKey ==
    Blocked =>
        /\ ShevchenkoPair => key_l = key_r /\ candidate
        /\ (/\ CyrillicBranch(l) /\ l.lang # ""
            /\ r.entryname = Romanized(l) /\ AsciiBranch(r))
           => key_l = key_r

(***************************************************************************)
(* C8 (amended): the two keys agree from the second symbol on and differ   *)
(* in the first one, the Cyrillic key keeping the original lead letter     *)
(* (Shevchenko: Cyrillic Sha + 125 against S125); the pair is therefore    *)
(* not a candidate under the entryname rule.  In general the key of a      *)
(* Cyrillic entryname with a non-empty lang is the key of its Latin        *)
(* transliteration with the first symbol replaced by the entryname's own   *)
(* first character.                                                        *)
(***************************************************************************)
C8_KeyDiffersInLeadLetter ==
    Blocked =>
        /\ ShevchenkoPair =>
              /\ key_r = <<83, 49, 50, 53>>
              /\ key_l = <<1064, 49, 50, 53>>
              /\ ~candidate
        /\ (/\ CyrillicBranch(l) /\ l.lang # ""
            /\ r.entryname = Romanized(l) /\ AsciiBranch(r))
           => /\ key_l = <<l.entryname[1]>> \o Tail(key_r)
              /\ key_l[1] # key_r[1]
              /\ ~candidate

C8_Witness == Blocked /\ ShevchenkoPair /\ Len(key_l) = 4 /\ Len(key_r) = 4

(***************************************************************************)
(* C9 (as claimed): for a non-empty entryname whose first character is not *)
(* ASCII alphabetic and for every lang, the empty one included, the key is *)
(* the first character of entryname followed by the phonetic code, minus   *)
(* its first symbol, of the transliteration of entryname in uk for ukr,    *)
(* ru for rus, bg for bul and ru for every other lang.                     *)
(***************************************************************************)
ClaimedPack(lg) ==
    CASE lg \in {"ukr", "UKR"} -> "uk"
      [] lg = "rus" -> "ru"
      [] lg = "bul" -> "bg"
      [] OTHER -> "ru"

ClaimedKey(rec) ==
    <<rec.entryname[1]>> \o Tail(soundex(translit(rec.entryname, ClaimedPack(rec.lang))))

C9_KeyForEveryLang ==
    Blocked => (CyrillicBranch(l) => key_l = ClaimedKey(l))

(***************************************************************************)
(* C9 (amended): the same for every non-empty lang (the code compared      *)
(* without regard to case); for the empty lang the key is the empty        *)
(* string.                                                                 *)
(***************************************************************************)
C9_KeyForNonEmptyLang ==
    Blocked =>
        (CyrillicBranch(l) =>
            IF l.lang = "" THEN key_l = <<>> ELSE key_l = ClaimedKey(l))

C9_Witness ==
    /\ Blocked
    /\ CyrillicBranch(l)
    /\ l.lang = "bul"
    /\ key_l # <<l.entryname[1]>> \o Tail(soundex(translit(l.entryname, "ru")))
    /\ key_l = ClaimedKey(l)

(***************************************************************************)
(* C10 (as claimed): equal (entryname, lang) give equal keys, and on the   *)
(* ASCII-phonetic branch two entrynames whose first letters differ never   *)
(* get the same key.                                                       *)
(***************************************************************************)
C10_FirstLettersSeparate ==
    Blocked =>
        /\ l = r => key_l = key_r
        /\ (AsciiBranch(l) /\ AsciiBranch(r) /\ l.entryname[1] # r.entryname[1])
           => key_l # key_r

(***************************************************************************)
(* C10 (amended): equal (entryname, lang) give equal keys, and on the      *)
(* ASCII-phonetic branch two entrynames whose first letters differ in more *)
(* than case never get the same key (the key starts with the upper-cased   *)
(* first letter, so "s..." and "S..." can collide).                        *)
(***************************************************************************)
C10_FirstLettersSeparateUpToCase ==
    Blocked =>
        /\ l = r => key_l = key_r
        /\ (AsciiBranch(l) /\ AsciiBranch(r)
            /\ upper(l.entryname[1]) # upper(r.entryname[1]))
           => key_l # key_r

C10_Witness ==
    /\ Blocked
    /\ AsciiBranch(l) /\ AsciiBranch(r)
    /\ l.entryname[1] = 83 /\ r.entryname[1] = 90
    /\ Tail(key_l) = Tail(key_r)
    /\ key_l # key_r

(***************************************************************************)
(* modules/homoglyph.py.  A text is a sequence of code points.             *)
(***************************************************************************)
MaxText == 6

Range(seq) == {seq[i] : i \in DOMAIN seq}

\* the look-alike letters, position by position (lines 54-55 and 63-64)
cyrillic_set ==
    <<1030, 1110, 1040, 1072, 1042, 1045, 1077, 1050, 1052, 1053, 1054,
      1086, 1056, 1088, 1057, 1089, 1058, 1091, 1061, 1093>>
latin_set ==
    <<73, 105, 65, 97, 66, 69, 101, 75, 77, 72, 79, 111, 80, 112, 67, 99,
      84, 121, 88, 120>>

cyrillic_chars == Range(cyrillic_set)
latin_chars == Range(latin_set)
\* the letters listed in full_cyrillic: the block 1040..1103 without the
\* hard sign, and the Ukrainian letters Ye, I, Yi in both cases
full_cyrillic ==
    ((1040..1103) \ {1066, 1098}) \cup {1028, 1030, 1031, 1108, 1110, 1111}
full_latin == (65..90) \cup (97..122)
roman_numerals == {67, 68, 77, 88, 76, 86, 73}    \* C D M X L V I, Latin

special_cyrillic == full_cyrillic \ cyrillic_chars
special_latin == full_latin \ latin_chars

\* \w of a str pattern: letters, digits and the underscore
word_char(c) ==
    \/ c \in 48..57
    \/ c \in 65..90
    \/ c = 95
    \/ c \in 97..122
    \/ c \in 1024..1279

Apostrophe == 39

\* word_pattern.findall: a word starts at a \w, runs over \w and
\* apostrophes as far as it can and ends at the last \w of that run
RECURSIVE RunEnd(_, _)
RunEnd(text, i) ==
    IF i < Len(text) /\ (word_char(text[i + 1]) \/ text[i + 1] = Apostrophe)
    THEN RunEnd(text, i + 1)
    ELSE i

RECURSIVE LastWordChar(_, _)
LastWordChar(text, j) ==
    IF word_char(text[j]) THEN j ELSE LastWordChar(text, j - 1)

RECURSIVE findall_from(_, _)
findall_from(text, i) ==
    IF i > Len(text) THEN <<>>
    ELSE IF ~word_char(text[i]) THEN findall_from(text, i + 1)
    ELSE LET j == LastWordChar(text, RunEnd(text, i))
         IN  <<SubSeq(text, i, j)>> \o findall_from(text, j + 1)

word_pattern_findall(text) == findall_from(text, 1)

\* str.translate with the table str.maketrans(from, to)
translate(word, from, to) ==
    [i \in DOMAIN word |->
        IF \E k \in DOMAIN from : from[k] = word[i]
        THEN to[CHOOSE k \in DOMAIN from : from[k] = word[i]]
        ELSE word[i]]

convert_to_latin_unchanged(word) == word

convert_to_latin(word) == translate(word, cyrillic_set, latin_set)

convert_to_cyrillic(word) == translate(word, latin_set, cyrillic_set)

is_valid_alphabet_mix(word) ==
    ~(Range(word) \cap full_cyrillic # {} /\ Range(word) \cap full_latin # {})

\* '<f>' + char + '</f>' for a Latin look-alike, '<u>' + char + '</u>' for
\* a Cyrillic one, nothing for any other character
RECURSIVE highlight_mismatched_chars(_)
highlight_mismatched_chars(word) ==
    IF word = <<>> THEN <<>>
    ELSE LET char == Head(word)
             f == IF char \in latin_chars
                  THEN <<60, 102, 62, char, 60, 47, 102, 62>> ELSE <<>>
             u == IF char \in cyrillic_chars
                  THEN <<60, 117, 62, char, 60, 47, 117, 62>> ELSE <<>>
         IN  f \o u \o highlight_mismatched_chars(Tail(word))

\* str.find: the first index at which old occurs in text, 0 if nowhere
find(text, old) ==
    LET starts == {i \in 1..(Len(text) - Len(old) + 1) :
                      SubSeq(text, i, i + Len(old) - 1) = old}
    IN  IF starts = {} THEN 0 ELSE Min(starts)

\* text.replace(old, new, 1): the first occurrence of old in text, wherever
\* it is, replaced by new
replace_first(text, old, new) ==
    LET i == find(text, old)
    IN  IF i = 0 THEN text
        ELSE SubSeq(text, 1, i - 1) \o new \o SubSeq(text, i + Len(old), Len(text))

\* one numeral of the pattern:
\* (?:M{0,4})(?:CM|CD|D?C{0,3})(?:XC|XL|L?X{0,3})(?:IX|IV|V?I{0,3})
RomanPlace(one, five, ten) ==
    {<<>>, <<one>>, <<one, one>>, <<one, one, one>>, <<one, five>>, <<five>>,
     <<five, one>>, <<five, one, one>>, <<five, one, one, one>>, <<one, ten>>}
RomanThousands == {<<>>, <<77>>, <<77, 77>>, <<77, 77, 77>>, <<77, 77, 77, 77>>}

roman_group(w) ==
    \E i \in 0..Len(w) : \E j \in i..Len(w) : \E k \in j..Len(w) :
        /\ SubSeq(w, 1, i) \in RomanThousands
        /\ SubSeq(w, i + 1, j) \in RomanPlace(67, 68, 77)
        /\ SubSeq(w, j + 1, k) \in RomanPlace(88, 76, 67)
        /\ SubSeq(w, k + 1, Len(w)) \in RomanPlace(73, 86, 88)

\* re.fullmatch of (\W|\b)(group)+(\b) on a word: the word starts and ends
\* with a \w, and is one or more groups in a row
RECURSIVE roman_groups(_)
roman_groups(w) ==
    \/ roman_group(w)
    \/ \E n \in 1..(Len(w) - 1) :
          roman_group(SubSeq(w, 1, n)) /\ roman_groups(SubSeq(w, n + 1, Len(w)))

roman_fullmatch(w) ==
    /\ w # <<>>
    /\ word_char(w[1])
    /\ word_char(w[Len(w)])
    /\ roman_groups(w)

\* the body of the loop over the words, on the text as it is by then
fix_word(text, word) ==
    LET word_chars_set == Range(word)
        max_latin_count == Cardinality({i \in DOMAIN word : word[i] \in latin_chars})
        max_cyrillic_count == Cardinality({i \in DOMAIN word : word[i] \in cyrillic_chars})
    IN  IF is_valid_alphabet_mix(word) THEN text
        ELSE IF word_chars_set \subseteq roman_numerals
                /\ roman_fullmatch(convert_to_latin(word))
        THEN replace_first(text, word, convert_to_latin(word))
        ELSE IF /\ word_chars_set \cap special_cyrillic # {}
                /\ word_chars_set \cap latin_chars # {}
                /\ word_chars_set \cap special_latin = {}
        THEN replace_first(text, word, convert_to_cyrillic(word))
        ELSE IF /\ word_chars_set \cap special_latin # {}
                /\ word_chars_set \cap cyrillic_chars # {}
                /\ word_chars_set \cap special_cyrillic = {}
        THEN LET latin == replace_first(text, word, convert_to_latin(word))
             IN  IF max_latin_count > max_cyrillic_count
                 THEN replace_first(latin, word, highlight_mismatched_chars(word))
                 ELSE latin
        ELSE text

RECURSIVE fix_words(_, _)
fix_words(text, words) ==
    IF words = <<>> THEN text
    ELSE fix_words(fix_word(text, Head(words)), Tail(words))

fix_homoglyph_errors(text) == fix_words(text, word_pattern_findall(text))

\* The texts: a Latin-only letter (Z), a Cyrillic-only letter (zhe), the
\* look-alike pairs a / Cyrillic a and X / Cyrillic Kha, and the space.
TextAlphabet == {90, 97, 88, 1078, 1072, 1061, 32}
Texts == UNION {[1..n -> TextAlphabet] : n \in 0..MaxText}

InitHomoglyph ==
    /\ pc = "call"
    /\ arg \in Texts
    /\ ret = NotYet
    /\ warnings = 0
    /\ IdleDedup
    /\ IdleKey
    /\ IdleNorm
    /\ IdleStages

FixHomoglyphErrors ==
    /\ pc = "call"
    /\ ret' = fix_homoglyph_errors(arg)
    /\ pc' = "return"
    /\ UNCHANGED <<arg, warnings>>
    /\ UNCHANGED <<dedupVars, keyVars, normVars, stageVars>>

SpecHomoglyph == InitHomoglyph /\ [][FixHomoglyphErrors]_vars

(***************************************************************************)
(* Vocabulary of the properties of the homoglyph resolver.                 *)
(***************************************************************************)
Returned == pc = "return"

\* the tokens of a text, in order
Words(text) == word_pattern_findall(text)

\* only look-alike letters, of both scripts
MixedLookAlikes(w) ==
    /\ Range(w) \subseteq latin_chars \cup cyrillic_chars
    /\ Range(w) \cap latin_chars # {}
    /\ Range(w) \cap cyrillic_chars # {}

\* one numeral of the strict grammar over I, V, X, L, C, D, M
StrictRoman(w) == w # <<>> /\ roman_group(w)

\* a Latin-only and a Cyrillic-only letter in one token
GenuinelyMixed(w) ==
    /\ Range(w) \cap special_latin # {}
    /\ Range(w) \cap special_cyrillic # {}

CyrillicWithLatinTwins(w) ==
    /\ Range(w) \cap special_cyrillic # {}
    /\ Range(w) \cap latin_chars # {}
    /\ Range(w) \cap special_latin = {}

LatinWithCyrillicTwins(w) ==
    /\ Range(w) \cap special_latin # {}
    /\ Range(w) \cap cyrillic_chars # {}
    /\ Range(w) \cap special_cyrillic = {}

\* the i-th token of the result, if there is one
TokenBecomes(i, w) == i \in DOMAIN Words(ret) /\ Words(ret)[i] = w

HasMarker(text) == find(text, <<60, 117, 62>>) # 0 \/ find(text, <<60, 102, 62>>) # 0

\* the letters of w occur in text in the same order, each as it was or as
\* its Latin twin
RECURSIVE Embeds(_, _)
Embeds(w, text) ==
    IF w = <<>> THEN TRUE
    ELSE IF text = <<>> THEN FALSE
    ELSE IF Head(text) = Head(w) \/ <<Head(text)>> = convert_to_latin(<<Head(w)>>)
         THEN Embeds(Tail(w), Tail(text))
         ELSE Embeds(w, Tail(text))

(***************************************************************************)
(* C15: a token that mixes Latin and Cyrillic look-alike letters and whose  *)
(* Latin form is a Roman numeral of the strict grammar is rewritten to that *)
(* Latin numeral.  The code requires the token's characters to be Latin     *)
(* numeral letters before it looks at the Latin form, which no token with a *)
(* Cyrillic letter satisfies: the token is left as it was.                  *)
(***************************************************************************)
C15_RomanNumeralToLatin ==
    Returned =>
        \A i \in DOMAIN Words(arg) :
            LET w == Words(arg)[i]
            IN  (MixedLookAlikes(w) /\ StrictRoman(convert_to_latin(w)))
                    => TokenBecomes(i, convert_to_latin(w))

(***************************************************************************)
(* C16: a token with both a Latin-only and a Cyrillic-only letter is in the *)
(* result as it was in the text, whatever the other tokens are.  The repair *)
(* of a later token rewrites the first place where that token's characters  *)
(* occur, which can be inside the genuinely mixed token.                    *)
(***************************************************************************)
C16_MixedTokenUntouched ==
    Returned =>
        \A i \in DOMAIN Words(arg) :
            GenuinelyMixed(Words(arg)[i]) => TokenBecomes(i, Words(arg)[i])

(***************************************************************************)
(* C17: a token with a Cyrillic-only letter, a Latin look-alike and no      *)
(* Latin-only letter is, at its own position in the result, its             *)
(* all-Cyrillic form.                                                       *)
(***************************************************************************)
C17_CoercedToCyrillicInPlace ==
    Returned =>
        \A i \in DOMAIN Words(arg) :
            LET w == Words(arg)[i]
            IN  CyrillicWithLatinTwins(w) => TokenBecomes(i, convert_to_cyrillic(w))

(***************************************************************************)
(* C18: for a token with a Latin-only letter, a Cyrillic look-alike and no  *)
(* Cyrillic-only letter the result carries marker tags around the offending *)
(* characters and still has every letter of the token, in order.            *)
(***************************************************************************)
C18_CoercedToLatinAndMarked ==
    Returned =>
        \A i \in DOMAIN Words(arg) :
            LET w == Words(arg)[i]
            IN  LatinWithCyrillicTwins(w) => (HasMarker(ret) /\ Embeds(w, ret))

(***************************************************************************)
(* auth_normalize_table.py: process_language.                              *)
(***************************************************************************)
None == "None"                            \* Python's None as a declared lang

\* re.search(r"[a-zA-Z]", s)
search_ascii_letter(s) == \E i \in DOMAIN s : s[i] \in (65..90) \cup (97..122)

\* re.search(r"[Ѐ-ӿ]", s)
search_cyrillic(s) == \E i \in DOMAIN s : s[i] \in 1024..1279

\* the character classes of lines 193 and 195
ukrainian_class == {39, 73, 105, 1030, 1110, 1031, 1111, 1028, 1108}
russian_class == {1066, 1098, 1069, 1101, 1067, 1099, 1025, 1105}

latin_lang_keep_declared(lg) == IF lg \in {"", None} THEN "eng" ELSE lg

\* lines 186-187 and 200: the lang returned by the Latin branch
latin_lang(lg) == IF lg \notin {"eng", "pol", "fra"} THEN "eng" ELSE lg

cyrillic_detect_russian_first(entryname) ==
    IF Range(entryname) \cap russian_class # {} THEN [lang |-> "rus", log |-> <<>>]
    ELSE IF Range(entryname) \cap ukrainian_class # {} THEN [lang |-> "ukr", log |-> <<>>]
    ELSE [lang |-> "", log |-> <<"Unrecognized Cyrillic text without language">>]

\* lines 193-199: the lang detected from the letters of entryname, and
\* the warning logged when nothing is detected
cyrillic_detect(entryname) ==
    IF Range(entryname) \cap ukrainian_class # {} THEN [lang |-> "ukr", log |-> <<>>]
    ELSE IF Range(entryname) \cap russian_class # {} THEN [lang |-> "rus", log |-> <<>>]
    ELSE [lang |-> "", log |-> <<"Unrecognized Cyrillic text without language">>]

\* the returned tuple, and the warnings logged on the way
process_language(entryname, initials, given_name, lg) ==
    IF search_ascii_letter(entryname) \/ search_ascii_letter(initials)
           \/ search_ascii_letter(given_name)
    THEN [entryname |-> convert_to_latin(entryname),
          initials |-> convert_to_latin(initials),
          given_name |-> convert_to_latin(given_name),
          lang |-> latin_lang(lg),
          log |-> <<>>]
    ELSE IF search_cyrillic(entryname) \/ search_cyrillic(initials)
               \/ search_cyrillic(given_name)
    THEN LET detected == cyrillic_detect(convert_to_cyrillic(entryname))
         IN  [entryname |-> convert_to_cyrillic(entryname),
              initials |-> convert_to_cyrillic(initials),
              given_name |-> convert_to_cyrillic(given_name),
              lang |-> IF lg \notin {"ukr", "rus"} THEN detected.lang ELSE lg,
              log |-> IF lg \notin {"ukr", "rus"} THEN detected.log ELSE <<>>]
    ELSE [entryname |-> entryname, initials |-> initials,
          given_name |-> given_name, lang |-> lg, log |-> <<>>]

\* The names: Latin a, its Cyrillic look-alike, Cyrillic zhe, Ukrainian yi,
\* Russian yery, the apostrophe and a digit.
LangAlphabet == {97, 1072, 1078, 1111, 1099, 39, 49}
LangNames == UNION {[1..n -> LangAlphabet] : n \in 0..MaxLen}
ShortTexts == {<<>>} \cup {<<c>> : c \in LangAlphabet}
DeclaredLangs == {None, "", "ukr", "rus", "eng", "pol", "fra", "bul"}

InitLang ==
    /\ pc = "call"
    /\ arg \in [entryname : LangNames, initials : ShortTexts,
                given_name : ShortTexts, lang : DeclaredLangs]
    /\ ret = NotYet
    /\ warnings = 0
    /\ IdleDedup
    /\ IdleKey
    /\ IdleNorm
    /\ IdleStages

ProcessLanguage ==
    /\ pc = "call"
    /\ LET out == process_language(arg.entryname, arg.initials, arg.given_name, arg.lang)
       IN  /\ ret' = [entryname |-> out.entryname, initials |-> out.initials,
                      given_name |-> out.given_name, lang |-> out.lang]
           /\ warnings' = warnings + Len(out.log)
    /\ pc' = "return"
    /\ UNCHANGED arg
    /\ UNCHANGED <<dedupVars, keyVars, normVars, stageVars>>

SpecLang == InitLang /\ [][ProcessLanguage]_vars

(***************************************************************************)
(* Vocabulary of the properties of the classifier.                         *)
(***************************************************************************)
AsciiLatinLetter(c) == c \in (65..90) \cup (97..122)
CyrillicRange(c) == c \in 1024..1279

ArgFields == {arg.entryname, arg.initials, arg.given_name}
LatinFields == \E s \in ArgFields : \E i \in DOMAIN s : AsciiLatinLetter(s[i])
CyrillicFields ==
    /\ ~LatinFields
    /\ \E s \in ArgFields : \E i \in DOMAIN s : CyrillicRange(s[i])

LatinTwin(c) == latin_set[CHOOSE k \in DOMAIN cyrillic_set : cyrillic_set[k] = c]
CyrillicTwin(c) == cyrillic_set[CHOOSE k \in DOMAIN latin_set : latin_set[k] = c]

\* out is s with every Cyrillic look-alike replaced by its Latin twin
IsLatinForm(out, s) ==
    /\ Len(out) = Len(s)
    /\ \A i \in DOMAIN s :
          out[i] = IF s[i] \in cyrillic_chars THEN LatinTwin(s[i]) ELSE s[i]

\* out is s with every Latin look-alike replaced by its Cyrillic twin
IsCyrillicForm(out, s) ==
    /\ Len(out) = Len(s)
    /\ \A i \in DOMAIN s :
          out[i] = IF s[i] \in latin_chars THEN CyrillicTwin(s[i]) ELSE s[i]

\* apostrophe, Yi, I, Ye; hard sign, E, Yery, Yo
UkrainianDistinctive == {39, 1031, 1111, 1030, 1110, 1028, 1108}
RussianDistinctive == {1066, 1098, 1069, 1101, 1067, 1099, 1025, 1105}
HasUkrainian(s) == \E i \in DOMAIN s : s[i] \in UkrainianDistinctive
HasRussian(s) == \E i \in DOMAIN s : s[i] \in RussianDistinctive

(***************************************************************************)
(* C13: Latin branch of process_language.  When one of the three fields    *)
(* has an ASCII Latin letter, each returned field is the input with every  *)
(* Cyrillic look-alike replaced by its Latin twin, and the returned lang   *)
(* is the declared one if that is eng, pol or fra and eng otherwise (None, *)
(* the empty lang, ukr and rus included).                                  *)
(***************************************************************************)
C13_LatinBranch ==
    (Returned /\ LatinFields) =>
        /\ IsLatinForm(ret.entryname, arg.entryname)
        /\ IsLatinForm(ret.initials, arg.initials)
        /\ IsLatinForm(ret.given_name, arg.given_name)
        /\ ret.lang = IF arg.lang \in {"eng", "pol", "fra"} THEN arg.lang ELSE "eng"
        /\ warnings = 0

C13_Witness ==
    /\ Returned
    /\ LatinFields
    /\ arg.lang = "ukr"
    /\ ret.lang = "eng"
    /\ \E i \in DOMAIN arg.entryname : arg.entryname[i] \in cyrillic_chars
    /\ ret.entryname # arg.entryname

(***************************************************************************)
(* C14: Cyrillic branch of process_language.  With no ASCII Latin letter   *)
(* in any field and a character of U+0400-U+04FF in some field, the fields *)
(* are returned in Cyrillic form; a declared ukr or rus is kept; otherwise *)
(* the lang is ukr when entryname has a Ukrainian-distinctive character,   *)
(* else rus when it has a Russian-distinctive one, else empty with one     *)
(* warning; Ukrainian wins when both occur.  With neither Latin nor        *)
(* Cyrillic letters the fields and the lang come back unchanged.           *)
(***************************************************************************)
C14_CyrillicBranch ==
    /\ (Returned /\ CyrillicFields) =>
          /\ IsCyrillicForm(ret.entryname, arg.entryname)
          /\ IsCyrillicForm(ret.initials, arg.initials)
          /\ IsCyrillicForm(ret.given_name, arg.given_name)
          /\ ret.lang = IF arg.lang \in {"ukr", "rus"} THEN arg.lang
                        ELSE IF HasUkrainian(arg.entryname) THEN "ukr"
                        ELSE IF HasRussian(arg.entryname) THEN "rus"
                        ELSE ""
          /\ warnings = IF /\ arg.lang \notin {"ukr", "rus"}
                           /\ ~HasUkrainian(arg.entryname)
                           /\ ~HasRussian(arg.entryname)
                        THEN 1 ELSE 0
    /\ (Returned /\ ~LatinFields /\ ~CyrillicFields) =>
          /\ ret = arg
          /\ warnings = 0

C14_Witness ==
    /\ Returned
    /\ CyrillicFields
    /\ arg.lang \notin {"ukr", "rus"}
    /\ HasUkrainian(arg.entryname)
    /\ HasRussian(arg.entryname)
    /\ ret.lang = "ukr"

RetFields == {ret.entryname, ret.initials, ret.given_name}
RetLatin == \E s \in RetFields : \E i \in DOMAIN s : AsciiLatinLetter(s[i])
RetCyrillic == \E s \in RetFields : \E i \in DOMAIN s : CyrillicRange(s[i])
RetLookAlike == \E s \in RetFields : \E i \in DOMAIN s : s[i] \in cyrillic_chars
ArgCyrillicOnly ==
    \E s \in ArgFields : \E i \in DOMAIN s :
        CyrillicRange(s[i]) /\ s[i] \notin cyrillic_chars

(***************************************************************************)
(* C29 as stated: the three fields returned by process_language are in one *)
(* settled script: together they never contain both an ASCII Latin letter  *)
(* and a Cyrillic letter, and a returned lang of eng, pol or fra never     *)
(* accompanies a field that still contains a Cyrillic letter.              *)
(***************************************************************************)
C29_OneSettledScript ==
    Returned =>
        /\ ~(RetLatin /\ RetCyrillic)
        /\ ret.lang \in {"eng", "pol", "fra"} => ~RetCyrillic

(***************************************************************************)
(* C29 amended: the returned fields never contain a Cyrillic look-alike    *)
(* letter next to an ASCII Latin letter.  When a field of the input has an *)
(* ASCII Latin letter, the returned fields have no Cyrillic look-alike and *)
(* the lang is eng, pol or fra, while the Cyrillic letters that have no    *)
(* Latin twin stay where they were; the returned fields hold both scripts  *)
(* exactly when the input has an ASCII Latin letter and such a letter.     *)
(* When no field of the input has an ASCII Latin letter, no returned field *)
(* has one.                                                                *)
(***************************************************************************)
C29_NoLookAlikeNextToLatin ==
    Returned =>
        /\ ~(RetLatin /\ RetLookAlike)
        /\ LatinFields =>
              /\ ~RetLookAlike
              /\ ret.lang \in {"eng", "pol", "fra"}
              /\ RetLatin
        /\ ~LatinFields => ~RetLatin
        /\ (RetLatin /\ RetCyrillic) <=> (LatinFields /\ ArgCyrillicOnly)

C29_Witness ==
    /\ Returned
    /\ RetLatin
    /\ RetCyrillic
    /\ ret.lang = "eng"
    /\ ret.entryname # arg.entryname

(***************************************************************************)
(* auth_normalize_table.py: clean_text.                                    *)
(***************************************************************************)
\* str.maketrans of lines 72-73
superscripts == <<8304, 185, 178, 179, 8308, 8309, 8310, 8311, 8312, 8313>>
subscripts == <<8320, 8321, 8322, 8323, 8324, 8325, 8326, 8327, 8328, 8329>>
digits == <<48, 49, 50, 51, 52, 53, 54, 55, 56, 57>>

\* the dictionaries of lines 39-54 and 57-66
char_conversion ==
    198 :> <<65, 69>> @@ 230 :> <<97, 101>> @@ 338 :> <<79, 69>> @@
    339 :> <<111, 101>> @@ 272 :> <<68>> @@ 273 :> <<100>> @@
    208 :> <<68>> @@ 240 :> <<100>> @@ 305 :> <<105>> @@ 416 :> <<79>> @@
    417 :> <<111>> @@ 431 :> <<85>> @@ 432 :> <<117>> @@ 216 :> <<79>> @@
    248 :> <<111>> @@ 222 :> <<84, 72>> @@ 254 :> <<116, 104>> @@
    223 :> <<83, 83>> @@ 169 :> <<>> @@ 8471 :> <<>> @@ 174 :> <<>> @@
    8482 :> <<>> @@ 176 :> <<>> @@ 177 :> <<>> @@ 8240 :> <<>>

punctuation_rules ==
    33 :> <<32>> @@ 34 :> <<32>> @@ 39 :> <<>> @@ 40 :> <<32>> @@
    41 :> <<32>> @@ 45 :> <<45>> @@ 91 :> <<>> @@ 93 :> <<>> @@
    123 :> <<32>> @@ 125 :> <<32>> @@ 60 :> <<32>> @@ 62 :> <<32>> @@
    59 :> <<32>> @@ 58 :> <<32>> @@ 46 :> <<46>> @@ 63 :> <<32>> @@
    191 :> <<32>> @@ 161 :> <<32>> @@ 44 :> <<32>> @@ 47 :> <<32>> @@
    92 :> <<32>> @@ 64 :> <<64>> @@ 38 :> <<38>> @@ 42 :> <<32>> @@
    124 :> <<32>> @@ 37 :> <<32>> @@ 61 :> <<32>> @@ 43 :> <<43>> @@
    8722 :> <<45>> @@ 8484 :> <<32>> @@ 215 :> <<120>> @@ 247 :> <<47>> @@
    8216 :> <<32>> @@ 8217 :> <<32>> @@ 8219 :> <<32>> @@ 8220 :> <<32>> @@
    8221 :> <<32>> @@ 8222 :> <<32>> @@ 8231 :> <<32>> @@ 183 :> <<32>>

chars_to_delete == {702, 703, 183}

\* dict.get(char, char)
get(dict, char) == IF char \in DOMAIN dict THEN dict[char] ELSE <<char>>

\* "".join(dict.get(char, char) for char in text)
RECURSIVE join_get(_, _)
join_get(dict, text) ==
    IF text = <<>> THEN <<>>
    ELSE get(dict, Head(text)) \o join_get(dict, Tail(text))

\* "".join(char for char in text if char not in chars)
RECURSIVE join_without(_, _)
join_without(chars, text) ==
    IF text = <<>> THEN <<>>
    ELSE (IF Head(text) \in chars THEN <<>> ELSE <<Head(text)>>)
             \o join_without(chars, Tail(text))

\* \s of a str pattern and the characters str.strip takes off
whitespace ==
    {9, 10, 11, 12, 13, 28, 29, 30, 31, 32, 133, 160, 5760} \cup (8192..8202)
        \cup {8232, 8233, 8239, 8287, 12288}

\* [\x00-\x1F\x7F]
control == (0..31) \cup {127}

\* re.sub(r"\s+", " ", text)
RECURSIVE sub_whitespace(_)
sub_whitespace(text) ==
    IF text = <<>> THEN <<>>
    ELSE IF Head(text) \in whitespace
         THEN IF Len(text) > 1 /\ text[2] \in whitespace
              THEN sub_whitespace(Tail(text))
              ELSE <<32>> \o sub_whitespace(Tail(text))
         ELSE <<Head(text)>> \o sub_whitespace(Tail(text))

RECURSIVE lstrip(_)
lstrip(text) ==
    IF text # <<>> /\ Head(text) \in whitespace THEN lstrip(Tail(text)) ELSE text

RECURSIVE rstrip(_)
rstrip(text) ==
    IF text # <<>> /\ text[Len(text)] \in whitespace
    THEN rstrip(SubSeq(text, 1, Len(text) - 1))
    ELSE text

strip(text) == rstrip(lstrip(text))

clean_text(text) ==
    IF strip(text) = <<>> THEN <<>>
    ELSE LET plain == translate(translate(text, superscripts, digits), subscripts, digits)
             converted == join_get(char_conversion, plain)
             kept == join_without(chars_to_delete, converted)
             punctuated == join_get(punctuation_rules, kept)
             spaced == strip(sub_whitespace(punctuated))
         IN  join_without(control, spaced)

\* The raw subfield texts: a letter, the space and the tab, the control
\* character NUL, a punctuation mark that becomes a space, one that is
\* taken out and one that becomes another punctuation mark (the division
\* sign, which becomes '/').
RawAlphabet == {97, 32, 9, 0, 33, 39, 247}
RawTexts == UNION {[1..n -> RawAlphabet] : n \in 0..MaxText}

InitClean ==
    /\ pc = "call"
    /\ arg \in RawTexts
    /\ ret = NotYet
    /\ warnings = 0
    /\ IdleDedup
    /\ IdleKey
    /\ IdleNorm
    /\ IdleStages

CleanText ==
    /\ pc = "call"
    /\ ret' = clean_text(arg)
    /\ pc' = "return"
    /\ UNCHANGED <<arg, warnings>>
    /\ UNCHANGED <<dedupVars, keyVars, normVars, stageVars>>

SpecClean == InitClean /\ [][CleanText]_vars

(***************************************************************************)
(* C19: the output of clean_text is in whitespace normal form: no control  *)
(* character (below 0x20, or 0x7F), no run of two or more spaces, no        *)
(* leading or trailing whitespace.  The code trims before it takes the     *)
(* control characters out, so the spaces next to a control character stay  *)
(* at the ends of the result or end up side by side.                       *)
(***************************************************************************)
NoControlCharacter(text) == \A i \in DOMAIN text : text[i] >= 32 /\ text[i] # 127
NoRunOfSpaces(text) == \A i \in DOMAIN text : i < Len(text) => ~(text[i] = 32 /\ text[i + 1] = 32)
Trimmed(text) == text = <<>> \/ (text[1] \notin whitespace /\ text[Len(text)] \notin whitespace)

C19_WhitespaceNormalForm ==
    Returned => (NoControlCharacter(ret) /\ NoRunOfSpaces(ret) /\ Trimmed(ret))

(***************************************************************************)
(* C28: clean_text is idempotent: cleaning a cleaned text again gives the  *)
(* same text; a second pass rewrites or removes no character that the     *)
(* first pass has produced.                                                *)
(***************************************************************************)
C28_CleanTextIdempotent ==
    Returned => clean_text(ret) = ret

(***************************************************************************)
(* auth_normalize_table.py: normalize_dates.                               *)
(***************************************************************************)
MaxDate == 9

isdigit(c) == c \in 48..57
Hyphen == 45
QuestionMark == 63

\* re.sub(r"[^0-9\-?]", "", date_text)
RECURSIVE sub_not_date_chars(_)
sub_not_date_chars(text) ==
    IF text = <<>> THEN <<>>
    ELSE (IF isdigit(Head(text)) \/ Head(text) \in {Hyphen, QuestionMark}
          THEN <<Head(text)>> ELSE <<>>) \o sub_not_date_chars(Tail(text))

\* \d{4} at position i
four_digits(text, i) == i + 3 <= Len(text) /\ \A k \in i..(i + 3) : isdigit(text[k])

\* re.match(r"^\d{4}(-\d{4})?$", text); no line end is left in text
match_year_or_range(text) ==
    /\ four_digits(text, 1)
    /\ \/ Len(text) = 4
       \/ Len(text) = 9 /\ text[5] = Hyphen /\ four_digits(text, 6)

\* re.match(r"^\d{4}-?$", text)
match_year_open(text) ==
    /\ four_digits(text, 1)
    /\ Len(text) = 4 \/ (Len(text) = 5 /\ text[5] = Hyphen)

\* re.match(r"^\d{4}\?$", text)
match_year_uncertain(text) ==
    four_digits(text, 1) /\ Len(text) = 5 /\ text[5] = QuestionMark

normalize_dates_keep_mark(date_text) ==
    IF strip(date_text) = <<>> THEN <<>>
    ELSE LET text == sub_not_date_chars(date_text)
         IN  IF match_year_or_range(text) \/ match_year_open(text)
                    \/ match_year_uncertain(text)
             THEN text
             ELSE <<>>

normalize_dates(date_text) ==
    IF strip(date_text) = <<>> THEN <<>>
    ELSE LET text == sub_not_date_chars(date_text)
         IN  IF match_year_or_range(text) THEN text
             ELSE IF match_year_open(text) THEN text
             ELSE IF match_year_uncertain(text) THEN SubSeq(text, 1, Len(text) - 1)
             ELSE <<>>

\* The $f texts: every text of a digit, '-' and '?' up to the length of
\* YYYY-YYYY, shorter texts that also have a space or a letter, and the
\* three examples ('1900-1975', '1900?', 'c.1900').
DateAlphabet == {49, Hyphen, QuestionMark}
Date_1900_1975 == <<49, 57, 48, 48, 45, 49, 57, 55, 53>>
Date_1900_Uncertain == <<49, 57, 48, 48, 63>>
Date_c1900 == <<99, 46, 49, 57, 48, 48>>
DateTexts ==
    UNION {[1..n -> DateAlphabet] : n \in 0..MaxDate}
        \cup UNION {[1..n -> DateAlphabet \cup {32, 99}] : n \in 0..MaxText}
        \cup {Date_1900_1975, Date_1900_Uncertain, Date_c1900}

InitDates ==
    /\ pc = "call"
    /\ arg \in DateTexts
    /\ ret = NotYet
    /\ warnings = 0
    /\ IdleDedup
    /\ IdleKey
    /\ IdleNorm
    /\ IdleStages

NormalizeDates ==
    /\ pc = "call"
    /\ ret' = normalize_dates(arg)
    /\ pc' = "return"
    /\ UNCHANGED <<arg, warnings>>
    /\ UNCHANGED <<dedupVars, keyVars, normVars, stageVars>>

SpecDates == InitDates /\ [][NormalizeDates]_vars

(***************************************************************************)
(* Vocabulary of the properties of the dates.                              *)
(***************************************************************************)
DateChar(c) == c \in (48..57) \cup {45, 63}
Kept(text) == SelectSeq(text, DateChar)

Year(text, i) == \A k \in i..(i + 3) : k \in DOMAIN text /\ text[k] \in 48..57
ShapeYear(text) == Len(text) = 4 /\ Year(text, 1)
ShapeRange(text) == Len(text) = 9 /\ Year(text, 1) /\ text[5] = 45 /\ Year(text, 6)
ShapeOpen(text) == Len(text) = 5 /\ Year(text, 1) /\ text[5] = 45
ShapeUncertain(text) == Len(text) = 5 /\ Year(text, 1) /\ text[5] = 63
Accepted(text) == ShapeYear(text) \/ ShapeRange(text) \/ ShapeOpen(text)

(***************************************************************************)
(* C20: normalize_dates keeps the digits, '-' and '?' of its input; if     *)
(* what is kept has the shape YYYY, YYYY-YYYY or YYYY- it is the result,   *)
(* if it has the shape YYYY? the result is its four digits ('1900-1975'    *)
(* gives '1900-1975', '1900?' gives '1900'); the result is always empty or *)
(* of the shape YYYY, YYYY-YYYY or YYYY-.                                  *)
(***************************************************************************)
C20_DateShapes ==
    Returned =>
        /\ Accepted(Kept(arg)) => ret = Kept(arg)
        /\ ShapeUncertain(Kept(arg)) => ret = SubSeq(Kept(arg), 1, 4)
        /\ ret = <<>> \/ Accepted(ret)
        /\ arg = Date_1900_1975 => ret = Date_1900_1975
        /\ arg = Date_1900_Uncertain => ret = <<49, 57, 48, 48>>

C20_Witness ==
    /\ Returned
    /\ Kept(arg) # arg
    /\ ShapeUncertain(Kept(arg))
    /\ Len(ret) = 4

(***************************************************************************)
(* C21: normalize_dates is a strict allow-list on its input: an input that *)
(* is not itself exactly of the shape YYYY, YYYY-YYYY, YYYY- or YYYY?      *)
(* gives the empty string; 'c.1900' gives the empty string.                *)
(***************************************************************************)
C21_StrictAllowListOnInput ==
    Returned =>
        /\ ~(Accepted(arg) \/ ShapeUncertain(arg)) => ret = <<>>
        /\ arg = Date_c1900 => ret = <<>>

(***************************************************************************)
(* auth_normalize_table.py: convert_to_initials.  The call either returns  *)
(* a text or raises IndexError (part[0] of an empty part); the outcome is  *)
(* a record of the exception raised ("" when none) and the value returned. *)
(***************************************************************************)
\* str.split(): the runs of characters that are not whitespace
RECURSIVE split_from(_, _, _)
split_from(text, i, word) ==
    IF i > Len(text) THEN (IF word = <<>> THEN <<>> ELSE <<word>>)
    ELSE IF text[i] \in whitespace
         THEN (IF word = <<>> THEN <<>> ELSE <<word>>) \o split_from(text, i + 1, <<>>)
         ELSE split_from(text, i + 1, Append(word, text[i]))

split(text) == split_from(text, 1, <<>>)

\* str.split(sep) for a separator of one character: the parts between the
\* separators, empty parts included
RECURSIVE split_sep_from(_, _, _, _)
split_sep_from(text, sep, i, part) ==
    IF i > Len(text) THEN <<part>>
    ELSE IF text[i] = sep
         THEN <<part>> \o split_sep_from(text, sep, i + 1, <<>>)
         ELSE split_sep_from(text, sep, i + 1, Append(part, text[i]))

split_sep(text, sep) == split_sep_from(text, sep, 1, <<>>)

\* sep.join(list)
RECURSIVE join(_, _)
join(sep, list) ==
    IF list = <<>> THEN <<>>
    ELSE IF Len(list) = 1 THEN list[1]
    ELSE list[1] \o sep \o join(sep, Tail(list))

FullStop == 46

convert_to_initials(forename) ==
    IF forename = <<>> THEN [raised |-> "", value |-> <<>>]
    ELSE LET words == split(forename)
             parts(word) == split_sep(word, Hyphen)
         IN  IF \E w \in DOMAIN words :
                    \E p \in DOMAIN parts(words[w]) : parts(words[w])[p] = <<>>
             THEN [raised |-> "IndexError", value |-> <<>>]
             ELSE LET hyphenated_initials(word) ==
                          join(<<Hyphen>>,
                               [p \in DOMAIN parts(word) |->
                                    <<parts(word)[p][1], FullStop>>])
                      initials == [w \in DOMAIN words |-> hyphenated_initials(words[w])]
                  IN  [raised |-> "", value |-> join(<<32>>, initials)]

(***************************************************************************)
(* auth_normalize_table.py: normalize_authority_data, for one record of    *)
(* authsource with a well-formed xmlrecord.  fields is what parse_marcxml  *)
(* returns: tag -> list of subfield sets, a subfield set being a map from  *)
(* subfield codes to values.  The name fields of the single record         *)
(* modelled carry $a and $8 only, so $g, $b, $f and $d read as "" and the  *)
(* forename steps of lines 270-276 leave subfield_g and initials empty;    *)
(* the records of the batch also carry $g.                                 *)
(***************************************************************************)
MaxVariants == 1

NameFields == <<"200", "400", "700">>
ThreeLetterCodes == {"ukr", "rus", "eng", "pol", "fra", "bul"}

\* int(field_num)
int(field_num) ==
    IF field_num = "200" THEN 200 ELSE IF field_num = "400" THEN 400 ELSE 700

\* subfield_set.get(code, "")
subfield_get(subfield_set, code, default) ==
    IF code \in DOMAIN subfield_set THEN subfield_set[code] ELSE default

\* fields.get(tag, default)
fields_get(parsed, tag, default) ==
    IF tag \in DOMAIN parsed THEN parsed[tag] ELSE default

\* the language code spelled by the characters 9..11 of 100 $a
\* (field_100a[9:12]); a slice that is no known code is kept as "und"
slice_9_12(field_100a) == SubSeq(field_100a, 10, Min({12, Len(field_100a)}))
code_of(chars) ==
    IF chars = <<>> THEN ""
    ELSE IF chars = <<117, 107, 114>> THEN "ukr"
    ELSE IF chars = <<114, 117, 115>> THEN "rus"
    ELSE "und"

extract_lang(subfield_8, field_100a, field_num) ==
    IF subfield_8 # "" /\ subfield_8 \in ThreeLetterCodes THEN subfield_8
    ELSE IF field_num \in {"200", "400"} /\ field_100a # <<>>
         THEN code_of(slice_9_12(field_100a))
    ELSE None

\* re.sub(r"[^\dXx]", "", isni), then ^\d{15}[\dX]$
RECURSIVE sub_not_isni_chars(_)
sub_not_isni_chars(text) ==
    IF text = <<>> THEN <<>>
    ELSE (IF isdigit(Head(text)) \/ Head(text) \in {88, 120}
          THEN <<Head(text)>> ELSE <<>>) \o sub_not_isni_chars(Tail(text))

is_valid_isni(isni) ==
    /\ Len(isni) = 16
    /\ \A i \in 1..15 : isdigit(isni[i])
    /\ isdigit(isni[16]) \/ isni[16] = 88

normalize_isni(isni) ==
    IF isni = <<>> THEN <<>>
    ELSE LET kept == sub_not_isni_chars(isni)
         IN  IF is_valid_isni(kept) THEN kept ELSE <<>>

\* re.sub(rf"^{re.escape(entryname)},?\s*", "", subfield_g)
sub_entryname_prefix(entryname, subfield_g) ==
    IF SubSeq(subfield_g, 1, Len(entryname)) = entryname
    THEN LET rest == SubSeq(subfield_g, Len(entryname) + 1, Len(subfield_g))
         IN  lstrip(IF rest # <<>> /\ Head(rest) = 44 THEN Tail(rest) ELSE rest)
    ELSE subfield_g

\* re.sub(r"\.(?!\s|$)", ". ", subfield_g)
sub_dot_without_space(subfield_g) ==
    LET piece(i) == IF /\ subfield_g[i] = FullStop
                       /\ i < Len(subfield_g)
                       /\ subfield_g[i + 1] \notin whitespace
                    THEN <<FullStop, 32>>
                    ELSE <<subfield_g[i]>>
    IN  join(<<>>, [i \in DOMAIN subfield_g |-> piece(i)])

\* re.sub(r"[,\\-]+$", "", subfield_g): trailing commas, backslashes, hyphens
RECURSIVE sub_trailing_separators(_)
sub_trailing_separators(subfield_g) ==
    IF subfield_g # <<>> /\ subfield_g[Len(subfield_g)] \in {44, 92, Hyphen}
    THEN sub_trailing_separators(SubSeq(subfield_g, 1, Len(subfield_g) - 1))
    ELSE subfield_g

\* lines 268-276: the forename as it reaches convert_to_initials
forename_of(rec, entryname, subfield_set) ==
    LET cleaned == clean_text(subfield_get(subfield_set, "$g", <<>>))
        unprefixed == IF rec.server_id = 7 /\ find(cleaned, entryname) # 0
                      THEN sub_entryname_prefix(entryname, cleaned)
                      ELSE cleaned
    IN  sub_trailing_separators(sub_dot_without_space(unprefixed))

\* the body evaluated with one value bound to its name
with(value, body(_)) == CHOOSE result \in {body(v) : v \in {value}} : TRUE

\* lines 267-310: the row appended for one occurrence of a name field, the
\* warnings process_language logged for it, and the exception raised
\* instead ("" when none)
normalize_field(rec, parsed, field_num, subfield_set) ==
    with(clean_text(subfield_get(subfield_set, "$a", <<>>)), LAMBDA entryname :
    with(forename_of(rec, entryname, subfield_set), LAMBDA subfield_g :
    with(IF subfield_g # <<>> THEN convert_to_initials(subfield_g)
         ELSE [raised |-> "",
               value |-> clean_text(subfield_get(subfield_set, "$b", <<>>))],
         LAMBDA converted :
    with(process_language(
             entryname, converted.value, subfield_g,
             extract_lang(subfield_get(subfield_set, "$8", ""),
                          subfield_get(fields_get(parsed, "100", <<<<>>>>)[1], "$a", <<>>),
                          field_num)),
         LAMBDA out :
        [row |-> [auth_id |-> rec.auth_id,
                  server_id |-> rec.server_id,
                  ISNI |-> normalize_isni(clean_text(
                      subfield_get(fields_get(parsed, "010", <<<<>>>>)[1], "$a", <<>>))),
                  field |-> int(field_num),
                  lang |-> out.lang,
                  entryname |-> out.entryname,
                  initials |-> out.initials,
                  given_name |-> out.given_name,
                  dates |-> normalize_dates(subfield_get(subfield_set, "$f", <<>>)),
                  roman |-> clean_text(subfield_get(subfield_set, "$d", <<>>)),
                  full_name |-> out.entryname
                      \o (IF out.given_name # <<>> THEN <<32>> \o out.given_name
                          ELSE <<32>> \o out.initials)],
         log |-> out.log,
         raised |-> converted.raised]))))

\* the functions lines 267-295 apply to an occurrence without $g, in order
field_calls ==
    <<"clean_text", "clean_text", "clean_text", "normalize_dates", "clean_text",
      "extract_lang", "process_language", "clean_text", "normalize_isni">>

\* the occurrences in the order of the two loops: tag by tag, and within a
\* tag in document order
RECURSIVE occurrences_from(_, _)
occurrences_from(parsed, t) ==
    IF t > Len(NameFields) THEN <<>>
    ELSE LET field_data == fields_get(parsed, NameFields[t], <<>>)
         IN  [i \in DOMAIN field_data |->
                 [field_num |-> NameFields[t], subfield_set |-> field_data[i]]]
                 \o occurrences_from(parsed, t + 1)

occurrences(parsed) == occurrences_from(parsed, 1)

\* DELETE FROM authsource_normalized WHERE auth_id = %s
delete_auth_id(table, id) == SelectSeq(table, LAMBDA row : row.auth_id # id)

\* The raw $a values: a punctuation mark only (cleans to ""), and a name
\* with a Cyrillic letter next to a Latin one.
RawNames == {<<33>>, <<1072, 97>>}
Field100a == <<50, 48, 50, 52, 48, 49, 48, 49, 97, 117, 107, 114>>
NameSubfieldSets ==
    {<<>>} \cup {("$a" :> t) : t \in RawNames}
           \cup {("$a" :> t) @@ ("$8" :> "ukr") : t \in RawNames}
Lists(S, n) == UNION {[1..k -> S] : k \in 0..n}
ParsedRecords ==
    {("100" :> f100) @@ ("200" :> f200) @@ ("400" :> f400) @@ ("700" :> f700) :
        f100 \in {<<<<>>>>, <<("$a" :> Field100a)>>},
        f200 \in Lists(NameSubfieldSets, 1),
        f400 \in Lists(NameSubfieldSets, MaxVariants),
        f700 \in Lists(NameSubfieldSets, 1)}

\* rows of an earlier pass: one of this record, one of another record
EarlierRow(a) ==
    [auth_id |-> a, server_id |-> 1, ISNI |-> <<>>, field |-> 200, lang |-> "eng",
     entryname |-> <<97>>, initials |-> <<>>, given_name |-> <<>>, dates |-> <<>>,
     roman |-> <<>>, full_name |-> <<97, 32>>]

InitNormalize ==
    /\ pc = "record"
    /\ record \in [auth_id : {1}, server_id : {1, 7}]
    /\ fields \in ParsedRecords
    /\ normalized_data = <<>>
    /\ authsource_normalized \in {<<>>, <<EarlierRow(1), EarlierRow(2)>>}
    /\ calls = <<>>
    /\ IdleDedup
    /\ IdleKey
    /\ IdleText
    /\ IdleStages

\* one pass of the inner loop (lines 264-310)
NormalizeField ==
    /\ pc = "record"
    /\ Len(normalized_data) < Len(occurrences(fields))
    /\ LET occ == occurrences(fields)[Len(normalized_data) + 1]
           out == normalize_field(record, fields, occ.field_num, occ.subfield_set)
       IN  /\ normalized_data' = Append(normalized_data, out.row)
           /\ warnings' = warnings + Len(out.log)
    /\ calls' = calls \o field_calls
    /\ UNCHANGED <<pc, record, fields, authsource_normalized, arg, ret>>
    /\ UNCHANGED <<dedupVars, keyVars, stageVars>>

\* insert_authsource_normalized, first statement: the committed DELETE
DeletePreviousRows ==
    /\ pc = "record"
    /\ Len(normalized_data) = Len(occurrences(fields))
    /\ authsource_normalized' = delete_auth_id(authsource_normalized, record.auth_id)
    /\ pc' = "deleted"
    /\ UNCHANGED <<record, fields, normalized_data, calls>>
    /\ UNCHANGED <<dedupVars, keyVars, textVars, stageVars>>

\* insert_authsource_normalized, second statement: the committed bulk
\* INSERT, or the warning when there is nothing to insert
InsertNormalizedRows ==
    /\ pc = "deleted"
    /\ IF normalized_data # <<>>
       THEN /\ authsource_normalized' = authsource_normalized \o normalized_data
            /\ UNCHANGED warnings
       ELSE /\ warnings' = warnings + 1
            /\ UNCHANGED authsource_normalized
    /\ pc' = "stored"
    /\ UNCHANGED <<record, fields, normalized_data, calls, arg, ret>>
    /\ UNCHANGED <<dedupVars, keyVars, stageVars>>

NextNormalize == NormalizeField \/ DeletePreviousRows \/ InsertNormalizedRows

SpecNormalize == InitNormalize /\ [][NextNormalize]_vars

(***************************************************************************)
(* C11: every row the normalization pass stores in authsource_normalized   *)
(* has a non-empty entryname, whatever the record and the occurrence.  An  *)
(* occurrence without $a, or whose $a cleans to the empty string, is       *)
(* appended and stored like any other.                                     *)
(***************************************************************************)
C11_EntrynameNeverEmpty ==
    \A i \in DOMAIN authsource_normalized : authsource_normalized[i].entryname # <<>>

(***************************************************************************)
(* C12: language classification is applied to a name field only after      *)
(* homoglyph resolution has been applied to that field: in the functions   *)
(* applied to the occurrences, every process_language has a                *)
(* fix_homoglyph_errors before it, after the previous process_language.    *)
(* The pass never calls fix_homoglyph_errors.                              *)
(***************************************************************************)
C12_HomoglyphBeforeClassification ==
    \A i \in DOMAIN calls :
        calls[i] = "process_language" =>
            \E j \in 1..(i - 1) :
                /\ calls[j] = "fix_homoglyph_errors"
                /\ \A k \in (j + 1)..(i - 1) : calls[k] # "process_language"

(***************************************************************************)
(* convert_to_initials on a forename.                                      *)
(***************************************************************************)
\* The forenames: every text of two letters, a hyphen and a space, and the
\* three examples.
ForenameAlphabet == {74, 97, Hyphen, 32}
Jean_Paul == <<74, 101, 97, 110, 45, 80, 97, 117, 108>>
JeanPaul == <<74, 101, 97, 110, 32, 80, 97, 117, 108>>
Jean_Paul_Louis == Jean_Paul \o <<32, 76, 111, 117, 105, 115>>
Forenames ==
    UNION {[1..n -> ForenameAlphabet] : n \in 0..MaxText}
        \cup {Jean_Paul, JeanPaul, Jean_Paul_Louis}

InitInitials ==
    /\ pc = "call"
    /\ arg \in Forenames
    /\ ret = NotYet
    /\ warnings = 0
    /\ IdleDedup
    /\ IdleKey
    /\ IdleNorm
    /\ IdleStages

ConvertToInitials ==
    /\ pc = "call"
    /\ LET outcome == convert_to_initials(arg)
       IN  IF outcome.raised = ""
           THEN ret' = outcome.value /\ pc' = "return"
           ELSE ret' = ret /\ pc' = "raise"
    /\ UNCHANGED <<arg, warnings>>
    /\ UNCHANGED <<dedupVars, keyVars, normVars, stageVars>>

SpecInitials == InitInitials /\ [][ConvertToInitials]_vars

(***************************************************************************)
(* Vocabulary of the properties of the initials.                           *)
(***************************************************************************)
Raised == pc = "raise"
\* the words of a forename and the parts of a word, as the claim reads them
ForenameWords(text) == split(text)
HyphenParts(word) == split_sep(word, Hyphen)
EmptyHyphenPart(text) ==
    \E w \in DOMAIN ForenameWords(text) :
        \E p \in DOMAIN HyphenParts(ForenameWords(text)[w]) :
            HyphenParts(ForenameWords(text)[w])[p] = <<>>

(***************************************************************************)
(* C22: convert_to_initials yields a result for every forename, also one   *)
(* with a leading, trailing or doubled hyphen; the empty forename gives    *)
(* the empty string, 'Jean-Paul' gives 'J.-P.', 'Jean Paul' gives 'J. P.'  *)
(* and 'Jean-Paul Louis' gives 'J.-P. L.'; a result has one group of       *)
(* initials per word, every group being 'x.' repeated with '-' between.    *)
(***************************************************************************)
C22_InitialsForEveryForename ==
    pc # "call" =>
        /\ Returned
        /\ arg = <<>> => ret = <<>>
        /\ arg = Jean_Paul => ret = <<74, 46, 45, 80, 46>>
        /\ arg = JeanPaul => ret = <<74, 46, 32, 80, 46>>
        /\ arg = Jean_Paul_Louis => ret = <<74, 46, 45, 80, 46, 32, 76, 46>>
        /\ Len(split(ret)) = Len(ForenameWords(arg))
        /\ \A w \in DOMAIN ForenameWords(arg) :
               LET group == split(ret)[w]
                   parts == HyphenParts(ForenameWords(arg)[w])
               IN  /\ Len(group) = 3 * Len(parts) - 1
                   /\ \A p \in DOMAIN parts :
                          /\ parts[p] # <<>>
                          /\ group[3 * p - 2] = parts[p][1]
                          /\ group[3 * p - 1] = FullStop
                          /\ p < Len(parts) => group[3 * p] = Hyphen

(***************************************************************************)
(* Vocabulary of the properties of the servers in generate_links.          *)
(***************************************************************************)
\* rows of the server that generate_links reads (field 200 or 400)
HasLinkRows(srv) == \E i \in RowIds : server_id(i) = srv /\ field(i) \in {200, 400}

\* a qualifying group: two entities of the server with rows of field 200
\* or 400 in one cluster and one language
QualifyingGroup(srv) ==
    \E i, j \in RowIds :
        /\ server_id(i) = srv /\ server_id(j) = srv
        /\ field(i) \in {200, 400} /\ field(j) \in {200, 400}
        /\ df_clusters[i] = df_clusters[j]
        /\ lang(i) = lang(j)
        /\ auth_id(i) # auth_id(j)

(***************************************************************************)
(* C24: in generate_links a server that has rows to link but no            *)
(* staffdomain in the server registry gets no link file and an error is    *)
(* logged for it; every other server that has a staffdomain and at least   *)
(* one qualifying group gets its links file, whether it is visited before  *)
(* or after the server without a staffdomain; an error is logged for no    *)
(* other server.                                                           *)
(***************************************************************************)
C24_MissingEndpointSkipsOnlyThatServer ==
    Done =>
        \A srv \in Servers :
            /\ (srv_map[srv] = NoDomain /\ HasLinkRows(srv))
               => (srv \notin DOMAIN link_files /\ srv \in errors)
            /\ (srv_map[srv] # NoDomain /\ QualifyingGroup(srv))
               => (srv \in DOMAIN link_files /\ link_files[srv] # {})
            /\ srv \in errors => srv_map[srv] = NoDomain

C24_Witness ==
    /\ Done
    /\ \E missing, other \in Servers :
          /\ missing < other
          /\ srv_map[missing] = NoDomain
          /\ missing \in errors
          /\ QualifyingGroup(other)
          /\ other \in DOMAIN link_files

(***************************************************************************)
(* auth_deduplication.py lines 139-154 with database.py insert_many, batch *)
(* by batch: every batch is one executemany followed by a commit; an error *)
(* rolls back the batch in flight and is raised again.  The script passes  *)
(* batch_size=10000; the model scales it down so that the rows of a run    *)
(* fill more than one batch.  A second run of the script over the same     *)
(* snapshot computes the same df_clusters and calls insert_many again.     *)
(***************************************************************************)
MaxRuns == 2
ClusterBatchSize == 2

\* data[i:i + batch_size]
batch_of(rows, i, size) == SubSeq(rows, i + 1, Min({i + size, Len(rows)}))

InitWrite ==
    /\ pc = "clustered"
    /\ df_norm \in [RowIds -> [auth_id : AuthIds, field : Fields, lang : Langs]]
    /\ RowsInInsertOrder(df_norm)
    /\ EntitiesInOrder(df_norm)
    /\ authsource = [a \in AuthIds |-> DefaultEntity]
    /\ \E cand \in SUBSET Pairs :
          df_pred = predict([p \in cand |-> ThresholdPermille])
    /\ df_clusters = cluster_pairwise_predictions_at_threshold(df_pred)
    /\ authsource_clusters = <<>>
    /\ srv_map = NotYet
    /\ link_files = NotYet
    /\ errors = {}
    /\ IdleWrite
    /\ IdleKey
    /\ IdleText
    /\ IdleNorm
    /\ IdleBatch
    /\ IdleHarvest

\* one pass of the loop of insert_many: executemany and commit
InsertBatch ==
    /\ pc = "clustered"
    /\ LET rows == cluster_results(df_clusters)
           batch == batch_of(rows, batch_index, ClusterBatchSize)
       IN  /\ batch_index < Len(rows)
           /\ authsource_clusters' = insert_many(authsource_clusters, batch)
           /\ batch_index' = batch_index + ClusterBatchSize
           /\ IF batch_index + ClusterBatchSize >= Len(rows)
              THEN pc' = "saved" /\ runs' = runs + 1
              ELSE pc' = pc /\ runs' = runs
    /\ UNCHANGED <<df_norm, authsource, df_pred, df_clusters,
                   srv_map, link_files, errors>>
    /\ UNCHANGED <<keyVars, textVars, normVars, batchVars, harvestVars>>

\* a batch fails: its rows are rolled back, the exception ends the script
InsertBatchFails ==
    /\ pc = "clustered"
    /\ batch_index < Len(cluster_results(df_clusters))
    /\ pc' = "failed"
    /\ UNCHANGED <<dedupVars, writeVars>>
    /\ UNCHANGED <<keyVars, textVars, normVars, batchVars, harvestVars>>

\* the script is run again over the same snapshot
RunAgain ==
    /\ pc = "saved"
    /\ runs < MaxRuns
    /\ pc' = "clustered"
    /\ batch_index' = 0
    /\ UNCHANGED <<dedupVars, runs>>
    /\ UNCHANGED <<keyVars, textVars, normVars, batchVars, harvestVars>>

NextWrite == InsertBatch \/ InsertBatchFails \/ RunAgain

SpecWrite == InitWrite /\ [][NextWrite]_vars

(***************************************************************************)
(* C26: the write-out of the cluster assignments is idempotent across      *)
(* runs: after a second run over the same snapshot the table               *)
(* authsource_clusters holds the rows that one run writes, each as often   *)
(* as one run writes it; the rows of the earlier run are overwritten, not  *)
(* accumulated.                                                            *)
(***************************************************************************)
C26_RerunOverwrites ==
    pc = "saved" => authsource_clusters = BagOfRows(cluster_results(df_clusters))

(***************************************************************************)
(* auth_normalize_table.py: normalize_authority_data over the rows of      *)
(* authsource, with database.py insert_authsource_normalized statement by  *)
(* statement.  An xmlrecord is blank, malformed or well-formed; a          *)
(* well-formed one is given by what parse_marcxml returns for it.  The     *)
(* loop has no try/except of its own: an exception raised while a record   *)
(* is normalized, or raised again by insert_authsource_normalized, leaves  *)
(* normalize_authority_data and ends the script.                           *)
(***************************************************************************)
MaxRecords == 2

\* parse_marcxml results: a heading, a heading with a forename that ends
\* in a hyphen, a heading with a forename that starts with one, no name
\* field at all
HeadingOnly == ("200" :> <<("$a" :> <<98>>)>>)
HeadingForename == ("200" :> <<("$a" :> <<98>>) @@ ("$g" :> <<74, 45>>)>>)
HeadingBadForename == ("200" :> <<("$a" :> <<98>>) @@ ("$g" :> <<45, 74>>)>>)
NoNameField == ("100" :> <<("$a" :> Field100a)>>)
XmlRecords ==
    {[syntax |-> "blank", fields |-> <<>>], [syntax |-> "malformed", fields |-> <<>>]}
        \cup {[syntax |-> "wellformed", fields |-> f] :
                 f \in {HeadingOnly, HeadingForename, HeadingBadForename, NoNameField}}
Batches ==
    UNION {{[k \in 1..n |-> [auth_id |-> k, server_id |-> 1, xmlrecord |-> x[k]]] :
               x \in [1..n -> XmlRecords]} : n \in 1..MaxRecords}

\* not xmlrecord or not xmlrecord.strip()
is_blank(xmlrecord) == xmlrecord.syntax = "blank"
\* etree.fromstring raises XMLSyntaxError
XMLSyntaxError(xmlrecord) == xmlrecord.syntax = "malformed"
parse_marcxml(xmlrecord) == xmlrecord.fields

RECURSIVE log_count(_)
log_count(outs) ==
    IF outs = <<>> THEN 0 ELSE Len(Head(outs).log) + log_count(Tail(outs))

\* lines 259-310 for one record: the rows collected, the warnings logged,
\* and the exception that ends the loops ("" when none)
normalize_record(rec) ==
    with(parse_marcxml(rec.xmlrecord), LAMBDA parsed :
    with(occurrences(parsed), LAMBDA occ :
    with([i \in DOMAIN occ |->
             normalize_field(rec, parsed, occ[i].field_num, occ[i].subfield_set)],
         LAMBDA outs :
        [rows |-> [i \in DOMAIN outs |-> outs[i].row],
         warnings |-> log_count(outs),
         raised |-> IF \E i \in DOMAIN outs : outs[i].raised # ""
                    THEN "IndexError" ELSE ""])))

rows_of(table, id) == SelectSeq(table, LAMBDA row : row.auth_id = id)

after_record(pos) == IF pos > Len(data) THEN "finished" ELSE "loop"

InitBatch ==
    /\ pc = "loop"
    /\ data \in Batches
    /\ position = 1
    /\ logged = <<>>
    /\ previous_rows = NotYet
    /\ record = NotYet
    /\ fields = NotYet
    /\ normalized_data = <<>>
    /\ authsource_normalized \in {<<>>, <<EarlierRow(1), EarlierRow(2)>>}
    /\ calls = <<>>
    /\ IdleDedup
    /\ IdleKey
    /\ IdleText
    /\ IdleWrite
    /\ IdleHarvest

\* lines 245-254: a blank or malformed xmlrecord is logged and skipped
SkipRecord ==
    /\ pc = "loop"
    /\ is_blank(data[position].xmlrecord) \/ XMLSyntaxError(data[position].xmlrecord)
    /\ logged' = Append(logged, data[position].auth_id)
    /\ position' = position + 1
    /\ pc' = after_record(position + 1)
    /\ UNCHANGED <<data, previous_rows>>
    /\ UNCHANGED <<dedupVars, keyVars, textVars, normVars, writeVars, harvestVars>>

\* lines 256-310, up to the call of insert_authsource_normalized
NormalizeRecord ==
    /\ pc = "loop"
    /\ ~is_blank(data[position].xmlrecord)
    /\ ~XMLSyntaxError(data[position].xmlrecord)
    /\ \E out \in {normalize_record(data[position])} :
           /\ out.raised = ""
           /\ normalized_data' = out.rows
           /\ warnings' = warnings + out.warnings
    /\ record' = [auth_id |-> data[position].auth_id,
                  server_id |-> data[position].server_id]
    /\ fields' = parse_marcxml(data[position].xmlrecord)
    /\ previous_rows' = authsource_normalized
    /\ pc' = "normalized"
    /\ UNCHANGED <<data, position, logged, authsource_normalized, calls, arg, ret>>
    /\ UNCHANGED <<dedupVars, keyVars, writeVars, harvestVars>>

\* convert_to_initials raises IndexError on line 276; nothing catches it
NormalizeRecordRaises ==
    /\ pc = "loop"
    /\ ~is_blank(data[position].xmlrecord)
    /\ ~XMLSyntaxError(data[position].xmlrecord)
    /\ normalize_record(data[position]).raised # ""
    /\ pc' = "aborted"
    /\ UNCHANGED <<dedupVars, keyVars, textVars, normVars, writeVars, batchVars,
                   harvestVars>>

\* database.py 421-422: the DELETE, committed by execute
DeleteRows ==
    /\ pc = "normalized"
    /\ authsource_normalized' = delete_auth_id(authsource_normalized, record.auth_id)
    /\ pc' = "deleted"
    /\ UNCHANGED <<record, fields, normalized_data, calls>>
    /\ UNCHANGED <<dedupVars, keyVars, textVars, writeVars, batchVars, harvestVars>>

\* the connection check or the DELETE fails: rolled back, logged on line
\* 440 and raised again
DeleteFails ==
    /\ pc = "normalized"
    /\ logged' = Append(logged, record.auth_id)
    /\ pc' = "aborted"
    /\ UNCHANGED <<data, position, previous_rows>>
    /\ UNCHANGED <<dedupVars, keyVars, textVars, normVars, writeVars, harvestVars>>

\* database.py 425-438: the bulk INSERT, committed by executemany, or the
\* warning when there is nothing to insert; the loop goes on
InsertRows ==
    /\ pc = "deleted"
    /\ IF normalized_data # <<>>
       THEN /\ authsource_normalized' = authsource_normalized \o normalized_data
            /\ UNCHANGED warnings
       ELSE /\ warnings' = warnings + 1
            /\ UNCHANGED authsource_normalized
    /\ position' = position + 1
    /\ pc' = after_record(position + 1)
    /\ UNCHANGED <<record, fields, normalized_data, calls, arg, ret>>
    /\ UNCHANGED <<data, logged, previous_rows>>
    /\ UNCHANGED <<dedupVars, keyVars, writeVars, harvestVars>>

\* the bulk INSERT fails: executemany rolls the INSERT back (the DELETE is
\* committed already), line 440 logs, the exception is raised again
InsertFails ==
    /\ pc = "deleted"
    /\ normalized_data # <<>>
    /\ logged' = Append(logged, record.auth_id)
    /\ pc' = "aborted"
    /\ UNCHANGED <<data, position, previous_rows>>
    /\ UNCHANGED <<dedupVars, keyVars, textVars, normVars, writeVars, harvestVars>>

NextBatch ==
    \/ SkipRecord
    \/ NormalizeRecord
    \/ NormalizeRecordRaises
    \/ DeleteRows
    \/ DeleteFails
    \/ InsertRows
    \/ InsertFails

SpecBatch == InitBatch /\ [][NextBatch]_vars

(***************************************************************************)
(* Vocabulary of the properties of the batch.                              *)
(***************************************************************************)
Finished == pc = "finished"
Aborted == pc = "aborted"
Logged(k) == data[k].auth_id \in Range(logged)
Stored(k) ==
    /\ data[k].xmlrecord.syntax = "wellformed"
    /\ normalize_record(data[k]).raised = ""
    /\ rows_of(authsource_normalized, data[k].auth_id) = normalize_record(data[k]).rows
\* rows that this pass has produced
PassRows ==
    UNION {Range(normalize_record(data[k]).rows) :
              k \in {j \in DOMAIN data : data[j].xmlrecord.syntax = "wellformed"}}

(***************************************************************************)
(* C23: failure isolation in normalize_authority_data.  A failure while    *)
(* one record is parsed, normalized or stored never aborts the run, and    *)
(* when the run ends every record of the batch has either been logged and  *)
(* skipped or been stored.                                                 *)
(***************************************************************************)
C23_FailureIsolation ==
    /\ ~Aborted
    /\ Finished => \A k \in DOMAIN data : Logged(k) \/ Stored(k)

(***************************************************************************)
(* C25: the replace-all write of insert_authsource_normalized is atomic:   *)
(* once a call for an auth_id has returned or failed, the table holds for  *)
(* that auth_id either the rows it held before the call or the new rows,   *)
(* never nothing in place of rows and never a mixture.                     *)
(***************************************************************************)
C25_AtomicReplaceAll ==
    (record # NotYet /\ pc \in {"loop", "finished", "aborted"}) =>
        LET now == rows_of(authsource_normalized, record.auth_id)
        IN  \/ now = rows_of(previous_rows, record.auth_id)
            \/ now = normalized_data

(***************************************************************************)
(* C27: no partial stage output: when the normalization pass is aborted    *)
(* part-way, none of the rows it has produced is in authsource_normalized. *)
(***************************************************************************)
C27_NoPartialOutput ==
    Aborted => \A i \in DOMAIN authsource_normalized :
                   authsource_normalized[i] \notin PassRows

(***************************************************************************)
(* modules/kohaapi_harvester.py: harvest_ilsdi.  The server holds the      *)
(* records whose ids are in present; a batch asks for batch_size ids in    *)
(* one request and the answer has one <record> per id, with the code       *)
(* RecordNotFound for an id the server does not hold.  requested is the    *)
(* history of the id ranges asked for.                                     *)
(***************************************************************************)
MaxId == 3
BatchSizes == {1, 3, 7, 10, 40, 41}
max_not_found_threshold == 40

\* line 101: record_id + i for i in range(batch_size)
record_ids(first, size) == first..(first + size - 1)

\* lines 115-125: a <record> without the code RecordNotFound
found_valid(ids) == ids \cap present # {}

\* lines 127-134: the counter after a batch
not_found_without_reset(count, size, valid) ==
    IF ~valid THEN count + size ELSE count
not_found_after(count, size, valid) ==
    IF ~valid THEN count + size ELSE 0

InitHarvest ==
    /\ pc = "harvesting"
    /\ batch_size \in BatchSizes
    /\ present \in SUBSET (1..MaxId)
    /\ record_id = 1
    /\ consecutive_not_found = 0
    /\ processed_records = 0
    /\ requested = <<>>
    /\ IdleDedup
    /\ IdleKey
    /\ IdleText
    /\ IdleNorm
    /\ IdleWrite
    /\ IdleBatch

\* lines 99-145, 154: a request answered with status 200 and parsed
HarvestBatch ==
    /\ pc = "harvesting"
    /\ \E ids \in {record_ids(record_id, batch_size)} :
           /\ requested' = Append(requested, [first |-> record_id,
                                              last |-> record_id + batch_size - 1])
           /\ processed_records' = processed_records + Cardinality(ids \cap present)
           /\ consecutive_not_found' =
                  not_found_after(consecutive_not_found, batch_size, found_valid(ids))
           /\ IF ~found_valid(ids)
                 /\ consecutive_not_found' >= max_not_found_threshold
              THEN pc' = "stopped" /\ UNCHANGED record_id
              ELSE pc' = "harvesting" /\ record_id' = record_id + batch_size
    /\ UNCHANGED <<batch_size, present>>
    /\ UNCHANGED <<dedupVars, keyVars, textVars, normVars, writeVars, batchVars>>

\* lines 146-152: the answer does not parse, or the status is not 200
HarvestFails ==
    /\ pc = "harvesting"
    /\ requested' = Append(requested, [first |-> record_id,
                                       last |-> record_id + batch_size - 1])
    /\ pc' = "error"
    /\ UNCHANGED <<batch_size, present, record_id, consecutive_not_found,
                   processed_records>>
    /\ UNCHANGED <<dedupVars, keyVars, textVars, normVars, writeVars, batchVars>>

NextHarvest ==
    \/ HarvestBatch
    \/ HarvestFails

SpecHarvest == InitHarvest /\ [][NextHarvest]_vars

\* every request is answered sooner or later: the loop has no other wait
\* than time.sleep(pause_duration)
FairSpecHarvest == SpecHarvest /\ WF_vars(NextHarvest)

(***************************************************************************)
(* Vocabulary of the properties of the harvest.                            *)
(***************************************************************************)
Stopped == pc = "stopped"
\* the batches that were answered with status 200
Answered == IF pc = "error" THEN Len(requested) - 1 ELSE Len(requested)
AllMissing(k) ==
    \A id \in requested[k].first..requested[k].last : id \notin present
\* the all-missing batches in a row at the end of the answered ones
TrailingMissing ==
    LET valid == {k \in 1..Answered : ~AllMissing(k)}
    IN  IF valid = {} THEN Answered
        ELSE Answered - (CHOOSE k \in valid : \A j \in valid : j <= k)
ConsecutiveBatches ==
    \A k \in DOMAIN requested :
        requested[k] = [first |-> (k - 1) * batch_size + 1, last |-> k * batch_size]
StopRule ==
    /\ ConsecutiveBatches
    /\ consecutive_not_found = batch_size * TrailingMissing
    /\ Stopped =>
          /\ batch_size * TrailingMissing >= max_not_found_threshold
          /\ batch_size * (TrailingMissing - 1) < max_not_found_threshold
    /\ pc = "harvesting" =>
          /\ batch_size * TrailingMissing < max_not_found_threshold
          /\ record_id = Len(requested) * batch_size + 1

(***************************************************************************)
(* C30: the harvest loop ends on exhaustion.  For every batch_size >= 1    *)
(* the batches asked for are consecutive and do not overlap, starting at   *)
(* id 1; the counter is the number of ids in the all-missing batches       *)
(* since the last batch with a valid record (0 right after such a batch);  *)
(* the loop stops at the first batch at which that number reaches 40,      *)
(* never earlier, and as long as the server answers it does stop.          *)
(***************************************************************************)
C30_StopsOnExhaustion == []StopRule /\ <>(pc \in {"stopped", "error"})

\* a harvest that stopped, after the counter had been reset by a batch
\* with a valid record that followed an all-missing one
C30_Witness ==
    /\ Stopped
    /\ \E k \in DOMAIN requested : k > 1 /\ AllMissing(k - 1) /\ ~AllMissing(k)

====
